---- MODULE Spec2Model ----
(***************************************************************************)
(* A model of eumdac-fetch: the SQLite state store (state.py), the        *)
(* parallel downloader (downloader.py) and the orchestrator (pipeline.py). *)
(*                                                                         *)
(* Persistent state (survives a process kill): the products table and the  *)
(* files of the download directory, the session directories and the       *)
(* search cache.  Everything else is memory of one process.               *)
(***************************************************************************)
EXTENDS Integers, Sequences, FiniteSets, TLC

VARIABLES
    cfg,            \* the configuration of the run (AppConfig), fixed by Init
    db,             \* products table: (product_id, job_name) -> row
    files,          \* download directory: file name -> size in chunks
    sessionExists,  \* job name -> the session directory exists
    searchCached,   \* job name -> search_results holds rows
    pcMain,         \* position of Pipeline.run
    jobIdx,         \* index of the job of the for loop of Pipeline.run
    pshutdown,      \* Pipeline._shutdown
    dshutdown,      \* the jobs whose DownloadService has _shutdown set
    isNew,          \* Session.is_new of the current job
    products,       \* the list handed to download_all
    regTodo,        \* products download_all has still to register
    wpc,            \* state key -> position of its _download_one coroutine
    attempt,        \* state key -> loop variable of the retry loop
    thr,            \* (state key, attempt) -> the thread of _download_blocking
    queue,          \* process_queue
    cpc,            \* position of _post_process_consumer
    crec,           \* the record the consumer holds
    clean,          \* this process meets no fault: no error, mismatch or timeout
    calm,           \* this process meets no signal, shutdown request or kill
    runs,           \* number of processes started so far
    timeouts,       \* number of transfers of this process that timed out
    hist,           \* history of this process (written only, never read by actions)
    lastCall,       \* the last StateDB call made directly, with its result
    fs,             \* a TokenRefreshingHTTPFileSystem, its credential source and callers
    srch            \* a call of SearchService.iter_products and the catalogue it queries

vars == <<cfg, db, files, sessionExists, searchCached, pcMain, jobIdx, pshutdown,
          dshutdown, isNew, products, regTodo, wpc, attempt, thr, queue, cpc, crec,
          clean, calm, runs, timeouts, hist, lastCall, fs, srch>>

-----------------------------------------------------------------------------
(* Bounds of the model *)

\* chunks of CHUNK_SIZE bytes a complete file holds
FileChunks == 2
\* processes started one after the other (the first run and its re-invocations)
MaxRuns == 2
\* max_retries of the jobs of the model
MaxRetries == 1
\* transfers of one process whose per-item timeout expires
MaxTimeouts == 1

-----------------------------------------------------------------------------
(* models.py: ProductStatus *)

PENDING == "pending"
DOWNLOADING == "downloading"
DOWNLOADED == "downloaded"
VERIFIED == "verified"
PROCESSING == "processing"
PROCESSED == "processed"
FAILED == "failed"

ProductStatus == {PENDING, DOWNLOADING, DOWNLOADED, VERIFIED, PROCESSING, PROCESSED, FAILED}

\* ProductRecord(product_id, job_name, ...): the defaults of the dataclass
ProductRecord(status) == [status |-> status, error_message |-> <<>>, download_path |-> <<>>]

-----------------------------------------------------------------------------
(* downloader.py: state keys *)

ENTRY_SEP == "::entry::"

\* A state key is the string product_id, or product_id + _ENTRY_SEP + entry_name;
\* a string is modelled as the sequence of its parts, an entry name as the
\* sequence of its path components.
EncodeEntryKey(product_id, entry_name) == <<product_id, ENTRY_SEP, entry_name>>

None == <<"None">>

\* if _ENTRY_SEP in key: key.split(_ENTRY_SEP, 1)
DecodeEntryKey(key) ==
    IF Len(key) > 1 /\ key[2] = ENTRY_SEP
        THEN <<key[1], key[3]>>
        ELSE <<key[1], None>>

\* str(product) as a state key: the key of a whole product
WholeKey(product_id) == <<product_id>>

\* entry_name.split("/")[-1]
Basename(entry_name) == entry_name[Len(entry_name)]

\* filename = entry_name.split("/")[-1] if entry_name else db_key
Filename(key) ==
    LET entry_name == DecodeEntryKey(key)[2]
    IN  IF entry_name # None THEN <<Basename(entry_name)>> ELSE key

-----------------------------------------------------------------------------
(* state.py: StateDB, as operators on the products table *)

\* StateDB.get(...) is not None
Exists(table, product_id, job_name) == <<product_id, job_name>> \in DOMAIN table

\* StateDB.get, for a row that exists
Get(table, product_id, job_name) == table[<<product_id, job_name>>]

\* the columns that ON CONFLICT ... DO UPDATE SET does not name
KeptOnConflict == {"collection", "created_at"}

\* ON CONFLICT(product_id, job_name) DO UPDATE SET size_kb = excluded.size_kb, ...
OnConflict(old, new) ==
    [f \in DOMAIN new |->
        IF f \in KeptOnConflict /\ f \in DOMAIN old THEN old[f] ELSE new[f]]

\* StateDB.upsert: INSERT ... ON CONFLICT(product_id, job_name) DO UPDATE
Upsert(table, product_id, job_name, record) ==
    [k \in (DOMAIN table) \cup {<<product_id, job_name>>} |->
        IF k # <<product_id, job_name>> THEN table[k]
        ELSE IF k \in DOMAIN table THEN OnConflict(table[k], record)
        ELSE record]

\* StateDB.update_status: UPDATE products SET status = ?, ... WHERE product_id = ? AND job_name = ?
UpdateStatusMsg(table, product_id, job_name, status, error_message) ==
    [k \in DOMAIN table |->
        IF k = <<product_id, job_name>>
            THEN [table[k] EXCEPT !.status = status, !.error_message = error_message]
            ELSE table[k]]

UpdateStatus(table, product_id, job_name, status) ==
    [k \in DOMAIN table |->
        IF k = <<product_id, job_name>>
            THEN [table[k] EXCEPT !.status = status]
            ELSE table[k]]

\* StateDB.get_by_status
GetByStatus(table, job_name, status) ==
    {k \in DOMAIN table : k[2] = job_name /\ table[k].status = status}

\* a get_resumable that returns every row of the job
ResumableStatusAny == ProductStatus

\* a get_resumable that leaves out the rows a killed process left downloading
ResumableStatusNoDownloading == {PENDING, FAILED}

\* StateDB.get_resumable: status IN (pending, downloading, failed)
\* a store whose failed rows are not taken up again
ResumableStatusNoFailed == {PENDING, DOWNLOADING}

ResumableStatus == {PENDING, DOWNLOADING, FAILED}

GetResumable(table, job_name) ==
    {k \in DOMAIN table : k[2] = job_name /\ table[k].status \in ResumableStatus}

\* StateDB.reset_stale_downloads: the rows the UPDATE matches
StaleRowsAnyJob(table, job_name) ==
    {k \in DOMAIN table : table[k].status = DOWNLOADING}
StaleRows(table, job_name) ==
    {k \in DOMAIN table : k[2] = job_name /\ table[k].status = DOWNLOADING}

\* StateDB.reset_stale_downloads: the table after the UPDATE
ResetStaleDownloads(table, job_name) ==
    [k \in DOMAIN table |->
        IF k \in StaleRows(table, job_name)
            THEN [table[k] EXCEPT !.status = PENDING]
            ELSE table[k]]

\* StateDB.reset_stale_downloads: cursor.rowcount
ResetStaleCount(table, job_name) == Cardinality(StaleRows(table, job_name))

-----------------------------------------------------------------------------
(* The catalog and the configuration *)

\* product.entries of every catalog item: a data file in a directory, and a manifest
ProductEntries == {<<"data", "f">>, <<"g">>}

\* product.entries of a product: P3 has none of the entries of the others
EntriesOf(product_id) == IF product_id = "P3" THEN {<<"h">>} ELSE ProductEntries

\* fnmatch.fnmatch(name, pat) for the patterns of the model: a literal, or "*"
Fnmatch(name, pat) == pat = "*" \/ name = <<pat>>

\* a match on the full name only
MatchingFullNames(all_entries, patterns) ==
    {e \in all_entries : \E pat \in patterns : Fnmatch(e, pat)}

\* [e for e in all_entries if any(fnmatch(e.split("/")[-1], pat) or fnmatch(e, pat) ...)]
MatchingEntries(all_entries, patterns) ==
    {e \in all_entries :
        \E pat \in patterns : Fnmatch(<<Basename(e)>>, pat) \/ Fnmatch(e, pat)}

\* models.py: JobConfig with its DownloadConfig and PostProcessConfig
JobConfig(name, items, entries, parallel, resume, verify_md5, max_retries, pp, live) ==
    [name |-> name, collection |-> <<"collection of", name>>, items |-> items, entries |-> entries, parallel |-> parallel,
     resume |-> resume, verify_md5 |-> verify_md5, max_retries |-> max_retries,
     post_process |-> pp, live |-> live]

JobNames == {"j1", "j2", "j3"}

Job == cfg.jobs[jobIdx]

JobOf(name) == CHOOSE j \in {cfg.jobs[i] : i \in 1..Len(cfg.jobs)} : j.name = name

NoEntries == {"None"}

-----------------------------------------------------------------------------
(* The memory of a process that has not started a job *)

NoHist ==
    [tries |-> <<>>,          \* state key -> transfer attempts started
     raised |-> <<>>,         \* state key -> attempts that raised a transient error
     last |-> <<>>,           \* state key -> how its last attempt ended
     writes |-> <<>>,         \* state key -> the statuses _download_one wrote, in order
     hook |-> <<>>,           \* record -> the calls of the hook for it, with its arguments
     observed |-> {},         \* state keys whose transfer saw the shutdown flag
     stopped |-> {},          \* state keys whose coroutine left at a shutdown check
     settled |-> {},          \* rows verified or processed when download_all was called
     dbAtCall |-> <<>>,       \* the table when download_all was called
     filesAtCall |-> <<>>,    \* the files when download_all was called
     searched |-> <<>>,       \* the jobs searched, in order
     cached |-> <<>>,         \* per job searched: whether the cached path was taken
     flagSet |-> FALSE,       \* the signal has arrived
     flagJob |-> 0,           \* the job running when the signal arrived (0: before the first)
     flagAt |-> "none",       \* where Pipeline.run was when the signal arrived
     allItems |-> {},         \* jobs whose download_all got every item of the job
     resets |-> <<>>,         \* per job reached: whether reset_stale was called, and when
     closed |-> <<>>,         \* the jobs whose state store and log handler were closed
     upserts |-> <<>>,        \* the keys the orchestrator itself upserted, in order
     cacheWrites |-> <<>>,    \* the calls of cache_search_results: job and items, in order
     put |-> <<>>,            \* what the producer of the job has put on the queue, in order
     firstRecord |-> <<>>,    \* row key -> collection and created_at of its first upsert
     lastRecord |-> <<>>,     \* row key -> the record of the last upsert of the key
     error |-> "none",        \* the error that left the try block of Pipeline.run
     failed |-> 0,            \* the job whose try block it left
     afterKill |-> FALSE]     \* the process before this one was killed

NoCall == [op |-> "none"]

\* no remote filesystem has been constructed
NoFs == [header |-> <<>>]

\* iter_products is not being called
NoSearch == [pc |-> "none"]

Wiped(pc, c, q, r, k) ==
    /\ pcMain' = pc
    /\ jobIdx' = 1
    /\ pshutdown' = FALSE
    /\ dshutdown' = {}
    /\ isNew' = FALSE
    /\ products' = <<>>
    /\ regTodo' = <<>>
    /\ wpc' = <<>>
    /\ attempt' = <<>>
    /\ thr' = <<>>
    /\ queue' = <<>>
    /\ cpc' = "idle"
    /\ crec' = None
    /\ clean' = c
    /\ calm' = q
    /\ runs' = r
    /\ timeouts' = 0
    /\ hist' = [NoHist EXCEPT !.afterKill = k]

-----------------------------------------------------------------------------
(* downloader.py: DownloadService._download_blocking and _stream_to_file,    *)
(* one thread of asyncio.to_thread per transfer attempt                       *)

\* fell: the range request of the attempt has failed ("restarting")
Running(stage, left) == [stage |-> stage, left |-> left, res |-> "none", fell |-> FALSE]
Returned(res) == [stage |-> "ret", left |-> 0, res |-> res, fell |-> FALSE]

\* download_path.stat().st_size if download_path.exists(), else 0
SizeOf(path) == IF path \in DOMAIN files THEN files[path] ELSE 0

\* download_path = self.download_dir / filename, the directory being that of the
\* collection of the job (Session.download_dir)
DownloadPath(k) == <<JobOf(k[2]).collection, Filename(k[1])>>

OverLong == FileChunks + 1

\* the coroutine of the state key awaits this thread (asyncio.wait_for has not expired)
Awaited(s) ==
    /\ s[1] \in DOMAIN wpc
    /\ wpc[s[1]] = "xfer"
    /\ attempt[s[1]] = s[2]

\* the thread s goes on as t; a thread nobody awaits ends when it returns
SetThread(s, t) ==
    IF t.stage = "ret" /\ ~Awaited(s)
        THEN thr' = [x \in (DOMAIN thr) \ {s} |-> thr[x]]
        ELSE thr' = [thr EXCEPT ![s] = t]

\* the full transfer that the thread opens comes after a range request that failed
Fell(s, path) ==
    thr[s].stage = "range" \/ (JobOf(s[1][2]).resume /\ SizeOf(path) > 0)

\* a full transfer that would open the file without truncating it
OpenFullKeeps(s, path) ==
    \E outcome \in {"ok", "transient", "fatal"} :
        /\ clean => outcome = "ok"
        /\ files' = files
        /\ SetThread(s, [IF outcome = "ok" THEN Running("full", FileChunks)
                                           ELSE Returned(outcome)
                            EXCEPT !.fell = Fell(s, path)])

\* with product.open(entry=entry_name) as stream, open(download_path, "wb") as f:
\* product.open raises, or the file is truncated and the stream is read from its start
OpenFull(s, path) ==
    \E outcome \in {"ok", "transient", "fatal"} :
        /\ clean => outcome = "ok"
        /\ IF outcome = "ok"
              THEN /\ files' = (path :> 0) @@ files
                   /\ SetThread(s, [Running("full", FileChunks)
                                       EXCEPT !.fell = Fell(s, path)])
              ELSE /\ files' = files
                   /\ SetThread(s, [Returned(outcome) EXCEPT !.fell = Fell(s, path)])

\* _download_blocking up to its first read: resume from the size of the file when
\* resume is on and the file is not empty, else (or when the range request fails) in full
ThreadOpen(s) ==
    /\ s \in DOMAIN thr
    /\ thr[s].stage = "open"
    /\ LET path == DownloadPath(s[1])
           offset == IF JobOf(s[1][2]).resume THEN SizeOf(path) ELSE 0
       IN  \/ /\ offset > 0
              /\ files' = files
              /\ SetThread(s, Running("range",
                                IF offset < FileChunks THEN FileChunks - offset ELSE 0))
           \/ /\ offset > 0
              /\ OpenFull(s, path)
           \/ /\ offset = 0
              /\ OpenFull(s, path)
    /\ UNCHANGED <<cfg, db, sessionExists, searchCached, pcMain, jobIdx, pshutdown,
                   dshutdown, isNew, products, regTodo, wpc, attempt, queue, cpc, crec,
                   clean, calm, runs, timeouts, hist, lastCall, fs, srch>>

\* f.write(data): mode "ab" appends, mode "wb" writes at the position of the thread
Written(path, t) ==
    IF t.stage = "range"
        THEN IF SizeOf(path) < OverLong THEN SizeOf(path) + 1 ELSE OverLong
        ELSE IF SizeOf(path) > FileChunks - t.left + 1
                THEN SizeOf(path) ELSE FileChunks - t.left + 1

\* one turn of the loop of _stream_to_file
ThreadRead(s) ==
    /\ s \in DOMAIN thr
    /\ thr[s].stage \in {"range", "full"}
    /\ LET path == DownloadPath(s[1])
           t == thr[s]
       IN  IF s[1][2] \in dshutdown
              THEN \* if self._shutdown.is_set(): return False
                   /\ SetThread(s, [Returned("false") EXCEPT !.fell = t.fell])
                   /\ files' = files
                   /\ hist' = [hist EXCEPT !.observed = @ \cup {s[1]}]
              ELSE /\ hist' = hist
                   /\ \/ /\ t.left > 0
                         /\ files' = (path :> Written(path, t)) @@ files
                         /\ SetThread(s, [t EXCEPT !.left = @ - 1])
                      \/ /\ t.left = 0
                         /\ files' = files
                         /\ SetThread(s, [Returned("true") EXCEPT !.fell = t.fell])
                      \/ \* stream.read raises: the range request falls back to a
                         \* full transfer, a full transfer raises to the coroutine
                         /\ ~clean
                         /\ IF t.stage = "range"
                               THEN OpenFull(s, path)
                               ELSE /\ files' = files
                                    /\ \E e \in {"transient", "fatal"} :
                                           SetThread(s, [Returned(e) EXCEPT !.fell = t.fell])
    /\ UNCHANGED <<cfg, db, sessionExists, searchCached, pcMain, jobIdx, pshutdown,
                   dshutdown, isNew, products, regTodo, wpc, attempt, queue, cpc, crec,
                   clean, calm, runs, timeouts, lastCall, fs, srch>>

-----------------------------------------------------------------------------
(* downloader.py: DownloadService._download_one, one coroutine per state key *)

\* a semaphore that a coroutine keeps after it has ended
HoldersAfterEnd == {k \in DOMAIN wpc : wpc[k] \in {"xfer", "downloaded", "md5", "sleep", "done"}}

\* the coroutines inside "async with semaphore"
Holders == {k \in DOMAIN wpc : wpc[k] \in {"xfer", "downloaded", "md5", "sleep"}}

\* a semaphore that never makes a coroutine wait
SemaphoreAlwaysFree == TRUE

SemaphoreFree == Cardinality(Holders) < Job.parallel

MsgExhaustedOffByOne(e) == <<"Failed after", Job.max_retries, "attempts", e>>
\* f"Failed after {self.max_retries + 1} attempts: {last_error}"
MsgExhausted(e) == <<"Failed after", Job.max_retries + 1, "attempts", e>>

\* error_message=str(e)
MsgError(e) == <<e>>

MsgMd5 == <<"MD5 verification failed">>

\* The top of one turn of "for attempt in range(self.max_retries + 1)", turn a:
\* leave on shutdown, else mark the row downloading and start the transfer thread
LoopTop(k, a) ==
    IF k[2] \in dshutdown
        THEN /\ wpc' = [wpc EXCEPT ![k] = "done"]
             /\ attempt' = [attempt EXCEPT ![k] = a]
             /\ hist' = [hist EXCEPT !.observed = @ \cup {k}, !.stopped = @ \cup {k}]
             /\ UNCHANGED <<db, thr>>
        ELSE /\ db' = UpdateStatus(db, k[1], k[2], DOWNLOADING)
             /\ thr' = (<<k, a>> :> Running("open", 0)) @@ thr
             /\ wpc' = [wpc EXCEPT ![k] = "xfer"]
             /\ attempt' = [attempt EXCEPT ![k] = a]
             /\ hist' = [hist EXCEPT !.tries[k] = @ + 1,
                                     !.writes[k] = Append(@, DOWNLOADING)]

WorkerFrame == <<cfg, files, sessionExists, searchCached, pcMain, jobIdx, pshutdown,
                 dshutdown, isNew, products, regTodo, queue, cpc, crec, clean, calm,
                 runs, lastCall, fs, srch>>

\* The coroutine starts: the check of line 222, then the semaphore, taken at once
\* when it is free
WorkerBegin(k) ==
    /\ k \in DOMAIN wpc
    /\ wpc[k] = "start"
    /\ IF k[2] \in dshutdown
          THEN /\ wpc' = [wpc EXCEPT ![k] = "done"]
               /\ hist' = [hist EXCEPT !.observed = @ \cup {k}, !.stopped = @ \cup {k}]
               /\ UNCHANGED <<db, thr, attempt>>
          ELSE IF SemaphoreFree
                  THEN LoopTop(k, 0)
                  ELSE /\ wpc' = [wpc EXCEPT ![k] = "wait"]
                       /\ UNCHANGED <<db, thr, attempt, hist>>
    /\ UNCHANGED <<WorkerFrame, timeouts>>

\* async with semaphore: a waiting coroutine gets the semaphore
WorkerAcquire(k) ==
    /\ k \in DOMAIN wpc
    /\ wpc[k] = "wait"
    /\ SemaphoreFree
    /\ LoopTop(k, 0)
    /\ UNCHANGED <<WorkerFrame, timeouts>>

\* except RETRYABLE_EXCEPTIONS as e: sleep and go round again, or after the last
\* turn mark the row failed (if last_error is not None)
Retryable(k, e) ==
    IF attempt[k] < Job.max_retries
        THEN /\ wpc' = [wpc EXCEPT ![k] = "sleep"]
             /\ db' = db
        ELSE /\ wpc' = [wpc EXCEPT ![k] = "done"]
             /\ db' = UpdateStatusMsg(db, k[1], k[2], FAILED, MsgExhausted(e))

\* except Exception as e: the row is marked failed at once, and the loop is left
NonRetryableRetried(k, e) == Retryable(k, e)
NonRetryable(k, e) ==
    /\ db' = UpdateStatusMsg(db, k[1], k[2], FAILED, MsgError(e))
    /\ wpc' = [wpc EXCEPT ![k] = "done"]

\* if downloaded: the row is marked downloaded; then verified at once, or after
\* the digest check of a whole product when verify_md5 is on
DownloadedUnmarked(k) ==
    /\ db' = UpdateStatus(db, k[1], k[2], VERIFIED)
    /\ wpc' = [wpc EXCEPT ![k] = "done"]
Downloaded(k) ==
    /\ db' = [db EXCEPT ![k] = [@ EXCEPT !.status = DOWNLOADED,
                                         !.download_path = DownloadPath(k)]]
    /\ wpc' = [wpc EXCEPT ![k] =
                 IF Job.verify_md5 /\ DecodeEntryKey(k[1])[2] = None
                     THEN "md5" ELSE "downloaded"]

\* _download_blocking returned False: no status is written, the loop is left
Interrupted(k) ==
    /\ db' = db
    /\ wpc' = [wpc EXCEPT ![k] = "done"]

\* the history after a step of the coroutine of k: the status it has written,
\* if it has written one
Logged(h, k) ==
    [h EXCEPT !.writes[k] = IF db'[k] = db[k] THEN @ ELSE Append(@, db'[k].status)]

Ended(k, how) ==
    Logged([hist EXCEPT !.last[k] = how,
                        !.raised[k] = IF how \in {"ConnectionError", "TimeoutError"}
                                         THEN @ + 1 ELSE @], k)

\* await asyncio.wait_for(asyncio.to_thread(self._download_blocking, ...)) returns or raises
WorkerTransferDone(k) ==
    /\ k \in DOMAIN wpc
    /\ wpc[k] = "xfer"
    /\ <<k, attempt[k]>> \in DOMAIN thr
    /\ LET s == <<k, attempt[k]>>
           res == thr[s].res
       IN  /\ thr[s].stage = "ret"
           /\ thr' = [x \in (DOMAIN thr) \ {s} |-> thr[x]]
           /\ \/ /\ res = "true"
                 /\ Downloaded(k)
                 /\ hist' = Ended(k, "true")
              \/ /\ res = "false"
                 /\ Interrupted(k)
                 /\ hist' = Ended(k, "false")
              \/ /\ res = "transient"
                 /\ Retryable(k, "ConnectionError")
                 /\ hist' = Ended(k, "ConnectionError")
              \/ /\ res = "fatal"
                 /\ NonRetryable(k, "ValueError")
                 /\ hist' = Ended(k, "ValueError")
    /\ UNCHANGED attempt
    /\ UNCHANGED <<WorkerFrame, timeouts>>

\* asyncio.wait_for expires before the result of the thread has reached the
\* coroutine: TimeoutError in the coroutine.  The thread is not stopped (a thread
\* cannot be cancelled): it goes on with nobody awaiting it, and what it returns
\* is dropped
WorkerTimeout(k) ==
    /\ ~clean
    /\ timeouts < MaxTimeouts
    /\ k \in DOMAIN wpc
    /\ wpc[k] = "xfer"
    /\ <<k, attempt[k]>> \in DOMAIN thr
    /\ LET s == <<k, attempt[k]>>
       IN  thr' = IF thr[s].stage = "ret"
                     THEN [x \in (DOMAIN thr) \ {s} |-> thr[x]]
                     ELSE thr
    /\ Retryable(k, "TimeoutError")
    /\ hist' = Ended(k, "TimeoutError")
    /\ timeouts' = timeouts + 1
    /\ UNCHANGED attempt
    /\ UNCHANGED WorkerFrame

\* else: (no verification): the row goes on to verified
WorkerMarkVerified(k) ==
    /\ k \in DOMAIN wpc
    /\ wpc[k] = "downloaded"
    /\ db' = UpdateStatus(db, k[1], k[2], VERIFIED)
    /\ wpc' = [wpc EXCEPT ![k] = "done"]
    /\ hist' = Logged(hist, k)
    /\ UNCHANGED <<attempt, thr>>
    /\ UNCHANGED <<WorkerFrame, timeouts>>

\* if verified: ... else: the row is marked failed, and the loop is left (break)
Md5FailedRetried(k) == Retryable(k, "MD5 verification failed")
Md5Failed(k) ==
    /\ db' = UpdateStatusMsg(db, k[1], k[2], FAILED, MsgMd5)
    /\ wpc' = [wpc EXCEPT ![k] = "done"]

\* verified = await asyncio.to_thread(self._verify_md5, product, download_path)
WorkerMd5Done(k) ==
    /\ k \in DOMAIN wpc
    /\ wpc[k] = "md5"
    /\ \E verified \in BOOLEAN :
        /\ clean => verified
        /\ IF verified
              THEN /\ db' = UpdateStatus(db, k[1], k[2], VERIFIED)
                   /\ wpc' = [wpc EXCEPT ![k] = "done"]
                   /\ hist' = Logged(hist, k)
              ELSE /\ Md5Failed(k)
                   /\ hist' = Ended(k, "mismatch")
    /\ UNCHANGED <<attempt, thr>>
    /\ UNCHANGED <<WorkerFrame, timeouts>>

\* await asyncio.sleep(wait) is over: the next turn of the retry loop
WorkerWake(k) ==
    /\ k \in DOMAIN wpc
    /\ wpc[k] = "sleep"
    /\ LoopTop(k, attempt[k] + 1)
    /\ UNCHANGED <<WorkerFrame, timeouts>>

-----------------------------------------------------------------------------
(* downloader.py: DownloadService.download_all *)

\* if not existing: self.state_db.upsert(ProductRecord(...)), for every key of keys;
\* a row that exists is left as it is, verified or not
RegisterKeysAlways(table, keys, job_name) ==
    [k \in (DOMAIN table) \cup {<<key, job_name>> : key \in keys} |->
        ProductRecord(PENDING)]
RegisterKeys(table, keys, job_name) ==
    [k \in (DOMAIN table) \cup {<<key, job_name>> : key \in keys} |->
        IF k \in DOMAIN table THEN table[k] ELSE ProductRecord(PENDING)]

\* the state keys download_all registers for one product
KeysOf(product_id, entries) ==
    IF entries # NoEntries
        THEN {EncodeEntryKey(product_id, e) :
                 e \in MatchingEntries(EntriesOf(product_id), entries)}
        ELSE {WholeKey(product_id)}

\* one turn of "for product in products": the rows of one product are registered
Register ==
    /\ pcMain = "register"
    /\ regTodo # <<>>
    /\ \/ db' = RegisterKeys(db, KeysOf(Head(regTodo), Job.entries), Job.name)
       \/ \* except Exception: product.entries raises, the product is skipped
          /\ ~clean
          /\ Job.entries # NoEntries
          /\ db' = db
    /\ regTodo' = Tail(regTodo)
    /\ UNCHANGED <<cfg, files, sessionExists, searchCached, pcMain, jobIdx, pshutdown,
                   dshutdown, isNew, products, wpc, attempt, thr, queue, cpc, crec,
                   clean, calm, runs, timeouts, hist, lastCall, fs, srch>>

\* the records of to_download whose product is in product_map
Tasks(to_download) ==
    {k \in to_download :
        \E i \in 1..Len(products) : products[i] = DecodeEntryKey(k[1])[1]}

\* finally of Pipeline.run, then "if self._shutdown.is_set(): break"
\* finally: state_db.close(); removeHandler(log_handler)
Finally(h) == [h EXCEPT !.closed = Append(@, jobIdx)]

AfterJob ==
    IF pshutdown
        THEN pcMain' = "finished" /\ jobIdx' = jobIdx
        ELSE pcMain' = "top" /\ jobIdx' = jobIdx + 1

\* Pipeline._download_producer after download_all: the verified rows go on the
\* queue unless the flag is set, then the sentinel
SENTINEL == <<"SENTINEL">>

RECURSIVE SeqOfSet(_)
SeqOfSet(S) ==
    IF S = {} THEN <<>>
    ELSE LET x == CHOOSE y \in S : TRUE IN <<x>> \o SeqOfSet(S \ {x})

\* a producer that puts no sentinel when the flag is set
ProducedNoSentinelOnShutdown ==
    IF pshutdown THEN <<>>
    ELSE SeqOfSet(GetByStatus(db, Job.name, VERIFIED)) \o <<SENTINEL>>

ProducedEverything ==
    SeqOfSet({k \in DOMAIN db : k[2] = Job.name}) \o <<SENTINEL>>
Produced ==
    IF pshutdown THEN <<SENTINEL>>
    ELSE SeqOfSet(GetByStatus(db, Job.name, VERIFIED)) \o <<SENTINEL>>

\* the finally block when download_all returns to _run_download_only; in the
\* producer, what it puts on the queue
FinallyIfOver(h) == IF cpc = "idle" THEN Finally(h) ELSE [h EXCEPT !.put = @ \o Produced]

\* download_all returns to its caller: _run_download_only, or the producer
Returns ==
    /\ wpc' = <<>>
    /\ attempt' = <<>>
    /\ IF cpc = "idle"
          THEN /\ AfterJob
               /\ queue' = queue
          ELSE /\ pcMain' = "join"
               /\ jobIdx' = jobIdx
               /\ queue' = queue \o Produced

\* to_download = self.state_db.get_resumable(job_name); the coroutines are made
\* and gathered (with nothing to download, download_all returns)
Spawn ==
    /\ pcMain = "register"
    /\ regTodo = <<>>
    /\ LET tasks == Tasks(GetResumable(db, Job.name))
       IN  IF tasks = {}
              THEN /\ Returns
                   /\ hist' = FinallyIfOver(hist)
              ELSE /\ wpc' = [k \in tasks |-> "start"]
                   /\ attempt' = [k \in tasks |-> 0]
                   /\ pcMain' = "gather"
                   /\ hist' = [hist EXCEPT !.tries = [k \in tasks |-> 0] @@ @,
                                           !.raised = [k \in tasks |-> 0] @@ @,
                                           !.last = [k \in tasks |-> "none"] @@ @,
                                           !.writes = [k \in tasks |-> <<>>] @@ @]
                   /\ UNCHANGED <<jobIdx, queue>>
    /\ UNCHANGED <<cfg, db, files, sessionExists, searchCached, pshutdown, dshutdown,
                   isNew, products, regTodo, thr, cpc, crec, clean, calm, runs, timeouts, lastCall, fs, srch>>

\* await asyncio.gather(*tasks) returns: every coroutine has ended
Gathered ==
    /\ pcMain = "gather"
    /\ \A k \in DOMAIN wpc : wpc[k] = "done"
    /\ Returns
    /\ hist' = FinallyIfOver(hist)
    /\ UNCHANGED <<cfg, db, files, sessionExists, searchCached, pshutdown, dshutdown,
                   isNew, products, regTodo, thr, cpc, crec, clean, calm, runs, timeouts, lastCall, fs, srch>>

\* DownloadService.request_shutdown, called by the owner of the service
RequestShutdown ==
    /\ ~calm
    /\ pcMain \in {"register", "gather"}
    /\ Job.name \notin dshutdown
    /\ dshutdown' = dshutdown \cup {Job.name}
    /\ UNCHANGED <<cfg, db, files, sessionExists, searchCached, pcMain, jobIdx, pshutdown,
                   isNew, products, regTodo, wpc, attempt, thr, queue, cpc, crec,
                   clean, calm, runs, timeouts, hist, lastCall, fs, srch>>

-----------------------------------------------------------------------------
(* pipeline.py: Pipeline.run *)

\* for job in self.config.jobs: if self._shutdown.is_set(): break;
\* session = Session(job); session.initialize()
RunTopUnchecked ==
    /\ pcMain = "top"
    /\ IF jobIdx > Len(cfg.jobs)
          THEN /\ pcMain' = "finished"
               /\ UNCHANGED <<isNew, sessionExists>>
          ELSE /\ pcMain' = "reset"
               /\ isNew' = ~sessionExists[Job.name]
               /\ sessionExists' = [sessionExists EXCEPT ![Job.name] = TRUE]
    /\ UNCHANGED <<cfg, db, files, searchCached, jobIdx, pshutdown, dshutdown, products,
                   regTodo, wpc, attempt, thr, queue, cpc, crec, clean, calm, runs, timeouts, hist,
                   lastCall, fs, srch>>
RunTop ==
    /\ pcMain = "top"
    /\ IF jobIdx > Len(cfg.jobs) \/ pshutdown
          THEN /\ pcMain' = "finished"
               /\ UNCHANGED <<isNew, sessionExists>>
          ELSE /\ pcMain' = "reset"
               /\ isNew' = ~sessionExists[Job.name]
               /\ sessionExists' = [sessionExists EXCEPT ![Job.name] = TRUE]
    /\ UNCHANGED <<cfg, db, files, searchCached, jobIdx, pshutdown, dshutdown, products,
                   regTodo, wpc, attempt, thr, queue, cpc, crec, clean, calm, runs, timeouts, hist,
                   lastCall, fs, srch>>

\* if not session.is_new
ResetsStaleAlways == TRUE

ResetsStale == ~isNew

\* if not session.is_new: state_db.reset_stale_downloads(job.name)
RunReset == IF ResetsStale THEN ResetStaleDownloads(db, Job.name) ELSE db

ResetStale ==
    /\ pcMain = "reset"
    /\ db' = RunReset
    /\ pcMain' = "search"
    /\ hist' = [hist EXCEPT !.resets = Append(@,
                  [job |-> jobIdx, is_new |-> isNew, called |-> ResetsStale,
                   rowcount |-> IF ResetsStale THEN ResetStaleCount(db, Job.name) ELSE 0,
                   searched |-> \E i \in 1..Len(hist.searched) : hist.searched[i] = jobIdx,
                   marked |-> \E k \in DOMAIN hist.writes :
                                 k[2] = Job.name /\ hist.writes[k] # <<>>])]
    /\ UNCHANGED <<cfg, files, sessionExists, searchCached, jobIdx, pshutdown, dshutdown,
                   isNew, products, regTodo, wpc, attempt, thr, queue, cpc, crec, clean, calm,
                   runs, timeouts, lastCall, fs, srch>>

\* Pipeline._search_with_cache: the cached path of a resumed session that is not
\* live keeps the products whose id is the key of a resumable row
UseCache == ~isNew /\ ~Job.live /\ searchCached[Job.name]

Found ==
    IF UseCache
        THEN LET resumable_ids == {k[1] : k \in GetResumable(db, Job.name)}
             IN  SelectSeq(Job.items, LAMBDA p : WholeKey(p) \in resumable_ids)
        ELSE Job.items

\* job.post_process.enabled and self.post_processor
WithPostProcessing == Job.post_process /\ cfg.post_processor

\* products = self._search_with_cache(...); if not products: continue;
\* else the DownloadService is made and download_all is called
Search ==
    /\ pcMain = "search"
    /\ searchCached' = IF ~UseCache /\ Found # <<>>
                          THEN [searchCached EXCEPT ![Job.name] = TRUE]
                          ELSE searchCached
    /\ products' = Found
    /\ IF Found = <<>>
          THEN /\ pcMain' = "top"
               /\ jobIdx' = jobIdx + 1
               /\ UNCHANGED <<regTodo, cpc>>
          ELSE /\ pcMain' = "register"
               /\ jobIdx' = jobIdx
               /\ regTodo' = Found
               /\ cpc' = IF WithPostProcessing THEN "check" ELSE "idle"
    /\ hist' = [hist EXCEPT
                  !.searched = Append(@, jobIdx),
                  !.cached = Append(@, UseCache),
                  !.cacheWrites = IF ~UseCache /\ Found # <<>>
                                      THEN Append(@, <<jobIdx, Found>>) ELSE @,
                  !.put = <<>>,
                  !.closed = IF Found = <<>> THEN Append(@, jobIdx) ELSE @,
                  !.settled = {k \in DOMAIN db : db[k].status \in {VERIFIED, PROCESSED}},
                  !.dbAtCall = db,
                  !.filesAtCall = files,
                  !.allItems = IF Found = Job.items THEN @ \cup {Job.name} ELSE @]
    /\ UNCHANGED <<cfg, db, files, sessionExists, pshutdown, dshutdown, isNew, wpc,
                   attempt, thr, queue, crec, clean, calm, runs, timeouts, lastCall, fs, srch>>

\* what iter_products can raise: the ValueError of _bisect_search, or the
\* transient error _retry raises again after its last attempt
SearchErrors == {"ValueError", "ConnectionError"}

\* the search is made unless the cached path finds nothing resumable
Searches == ~(UseCache /\ GetResumable(db, Job.name) = {})

\* search_service.iter_products raises: the try block of Pipeline.run has a
\* finally and no except, so the error leaves run() after the finally
SearchRaises ==
    /\ pcMain = "search"
    /\ ~clean
    /\ Searches
    /\ pcMain' = "raised"
    /\ \E e \in SearchErrors :
          hist' = [Finally(hist) EXCEPT !.searched = Append(@, jobIdx),
                                        !.cached = Append(@, UseCache),
                                        !.error = e, !.failed = jobIdx]
    /\ UNCHANGED <<cfg, db, files, sessionExists, searchCached, jobIdx, pshutdown,
                   dshutdown, isNew, products, regTodo, wpc, attempt, thr, queue, cpc, crec,
                   clean, calm, runs, timeouts, lastCall, fs, srch>>

\* Pipeline._handle_signal
HandleSignal ==
    /\ ~calm
    /\ pcMain \notin {"finished", "raised", "dead"}
    /\ ~pshutdown
    /\ pshutdown' = TRUE
    /\ hist' = [hist EXCEPT !.flagJob = IF pcMain = "top" THEN jobIdx - 1 ELSE jobIdx,
                            !.flagAt = pcMain,
                            !.flagSet = TRUE]
    /\ UNCHANGED <<cfg, db, files, sessionExists, searchCached, pcMain, jobIdx, dshutdown,
                   isNew, products, regTodo, wpc, attempt, thr, queue, cpc, crec, clean, calm,
                   runs, timeouts, lastCall, fs, srch>>

-----------------------------------------------------------------------------
(* pipeline.py: Pipeline._post_process_consumer *)

ConsumerFrame == <<cfg, files, sessionExists, searchCached, pcMain, jobIdx, pshutdown,
                   dshutdown, isNew, products, regTodo, wpc, attempt, thr, clean, calm,
                   runs, timeouts, lastCall, fs, srch>>

\* self.post_processor(Path(record.download_path), record.product_id) is called
HookCalled(rec) ==
    LET call == [args |-> <<db[rec].download_path, rec[1]>>, outcome |-> "running"]
    IN  [hist EXCEPT !.hook = (rec :> (IF rec \in DOMAIN @ THEN Append(@[rec], call)
                                                            ELSE <<call>>)) @@ @]

\* the call of the hook for rec that is running returns or raises
HookEnded(rec, outcome) ==
    [hist EXCEPT !.hook[rec][Len(hist.hook[rec])].outcome = outcome]

\* record = await process_queue.get(): the sentinel ends the consumer, a record
\* is marked processing and handed to the hook
Take ==
    /\ queue' = Tail(queue)
    /\ IF Head(queue) = SENTINEL
          THEN /\ cpc' = "done"
               /\ UNCHANGED <<db, crec, hist>>
          ELSE /\ cpc' = "hook"
               /\ crec' = Head(queue)
               /\ db' = UpdateStatus(db, Head(queue)[1], Head(queue)[2], PROCESSING)
               /\ hist' = HookCalled(Head(queue))

\* while True: if self._shutdown.is_set(): break; record = await process_queue.get()
ConsumerNext ==
    /\ cpc = "check"
    /\ IF pshutdown
          THEN /\ cpc' = "done"
               /\ UNCHANGED <<db, crec, queue, hist>>
          ELSE IF queue = <<>>
                  THEN /\ cpc' = "get"
                       /\ UNCHANGED <<db, crec, queue, hist>>
                  ELSE Take
    /\ UNCHANGED ConsumerFrame

\* the consumer waits in process_queue.get() and the producer has put something
ConsumerGet ==
    /\ cpc = "get"
    /\ queue # <<>>
    /\ Take
    /\ UNCHANGED ConsumerFrame

\* except Exception as e: the row is marked failed with the message of the hook
HookRaisedIgnored(rec, e) == UpdateStatus(db, rec[1], rec[2], PROCESSED)
HookRaised(rec, e) ==
    UpdateStatusMsg(db, rec[1], rec[2], FAILED, <<"Post-processing failed", e>>)

\* await asyncio.to_thread(self.post_processor, ...) returns or raises
ConsumerHookDone ==
    /\ cpc = "hook"
    /\ \E ok \in BOOLEAN :
        /\ clean => ok
        /\ db' = IF ok
                    THEN UpdateStatus(db, crec[1], crec[2], PROCESSED)
                    ELSE HookRaised(crec, "RuntimeError")
        /\ hist' = HookEnded(crec, IF ok THEN "returned" ELSE "raised")
    /\ cpc' = "check"
    /\ crec' = None
    /\ UNCHANGED queue
    /\ UNCHANGED ConsumerFrame

\* await asyncio.gather(producer, consumer) returns
Joined ==
    /\ pcMain = "join"
    /\ cpc = "done"
    /\ AfterJob
    /\ cpc' = "idle"
    /\ queue' = <<>>
    /\ hist' = Finally(hist)
    /\ UNCHANGED <<cfg, db, files, sessionExists, searchCached, pshutdown, dshutdown,
                   isNew, products, regTodo, wpc, attempt, thr, crec, clean, calm, runs, timeouts,
                   lastCall, fs, srch>>

-----------------------------------------------------------------------------
(* The process: it can be killed at any point, and be started again *)

Kill ==
    /\ ~calm
    /\ pcMain \notin {"finished", "raised", "dead"}
    /\ Wiped("dead", FALSE, FALSE, runs, FALSE)
    /\ UNCHANGED <<cfg, db, files, sessionExists, searchCached, lastCall, fs, srch>>

\* the next invocation with the same configuration; a process that finished has
\* waited for its threads (asyncio.run shuts the executor down)
Restart ==
    /\ runs < MaxRuns
    /\ \/ pcMain = "dead"
       \/ pcMain \in {"finished", "raised"} /\ thr = <<>>
    /\ \E c \in BOOLEAN : Wiped("top", c, c, runs + 1, pcMain = "dead")
    /\ UNCHANGED <<cfg, db, files, sessionExists, searchCached, lastCall, fs, srch>>

-----------------------------------------------------------------------------
(* The specification of the pipeline *)

\* one job that downloads one product, under every setting of its options
OneItemConfigs ==
    {[jobs |-> <<JobConfig("j1", <<"P1">>, entries, 1, resume, verify_md5,
                           max_retries, FALSE, TRUE)>>,
      post_processor |-> FALSE] :
        entries \in {NoEntries, {"f"}}, resume \in BOOLEAN, verify_md5 \in BOOLEAN,
        max_retries \in {0, MaxRetries}}

\* one job that downloads two products, one after the other or both at once
TwoItemConfigs ==
    {[jobs |-> <<JobConfig("j1", <<"P1", "P2">>, NoEntries, parallel, TRUE, TRUE,
                           MaxRetries, FALSE, TRUE)>>,
      post_processor |-> FALSE] :
        parallel \in {1, 2}}

InitProcess(configs, cleans, calms) ==
    /\ cfg \in configs
    /\ db = <<>>
    /\ files = <<>>
    /\ sessionExists = [n \in JobNames |-> FALSE]
    /\ searchCached = [n \in JobNames |-> FALSE]
    /\ pcMain = "top"
    /\ jobIdx = 1
    /\ pshutdown = FALSE
    /\ dshutdown = {}
    /\ isNew = FALSE
    /\ products = <<>>
    /\ regTodo = <<>>
    /\ wpc = <<>>
    /\ attempt = <<>>
    /\ thr = <<>>
    /\ queue = <<>>
    /\ cpc = "idle"
    /\ crec = None
    /\ clean \in cleans
    /\ calm \in calms
    /\ runs = 1
    /\ timeouts = 0
    /\ hist = NoHist
    /\ lastCall = NoCall

InitWith(configs, cleans, calms) ==
    /\ InitProcess(configs, cleans, calms)
    /\ fs = NoFs
    /\ srch = NoSearch

Pipeline ==
    \/ RunTop
    \/ ResetStale
    \/ Search
    \/ SearchRaises

Downloader ==
    \/ Register
    \/ Spawn
    \/ \E k \in DOMAIN wpc : WorkerBegin(k)
    \/ \E k \in DOMAIN wpc : WorkerAcquire(k)
    \/ \E k \in DOMAIN wpc : WorkerTransferDone(k)
    \/ \E k \in DOMAIN wpc : WorkerMarkVerified(k)
    \/ \E k \in DOMAIN wpc : WorkerMd5Done(k)
    \/ \E k \in DOMAIN wpc : WorkerWake(k)
    \/ \E s \in DOMAIN thr : ThreadOpen(s)
    \/ \E s \in DOMAIN thr : ThreadRead(s)
    \/ Gathered

Consumer ==
    \/ ConsumerNext
    \/ ConsumerGet
    \/ ConsumerHookDone
    \/ Joined

(* One process that runs one download-only job, with faults, timeouts and
   request_shutdown *)
Init == InitWith(OneItemConfigs \cup TwoItemConfigs, {FALSE}, {FALSE})

Next ==
    \/ Pipeline
    \/ Downloader
    \/ \E k \in DOMAIN wpc : WorkerTimeout(k)
    \/ RequestShutdown

Spec == Init /\ [][Next]_vars

-----------------------------------------------------------------------------
(* Claims about one run of download_all, checked under Spec *)

\* the threads of _download_blocking of a job that are reading a stream into a file
Streaming(name) ==
    {s \in DOMAIN thr : s[1][2] = name /\ thr[s].stage \in {"range", "full"}}

\* C5: at every moment of download_all, at most `parallel` transfers of the job
\* are reading a remote stream and writing a file.
C5_ParallelBound ==
    pcMain = "gather" => Cardinality(Streaming(Job.name)) <= Job.parallel

\* C6: once request_shutdown() has been called no row is newly marked downloading
\* and no attempt is started, and from the moment a transfer of a row has seen the
\* flag (before starting, between attempts, between chunks) the status of the row
\* is not written again by this run.
C6_ShutdownLeavesRows ==
    [][\A k \in DOMAIN hist.tries :
          /\ k[2] \in dshutdown =>
                /\ hist'.tries[k] = hist.tries[k]
                /\ db'[k].status = DOWNLOADING => db[k].status = DOWNLOADING
          /\ k \in hist.observed => db'[k] = db[k]]_vars

\* the first half of C6 alone: after request_shutdown() no attempt is started
C6_NoNewAttempt ==
    [][\A k \in DOMAIN hist.tries :
          k[2] \in dshutdown =>
              /\ hist'.tries[k] = hist.tries[k]
              /\ db'[k].status = DOWNLOADING => db[k].status = DOWNLOADING]_vars

\* the coroutine of k has ended and every attempt it made raised a transient error
AllTransient(k) ==
    /\ wpc[k] = "done"
    /\ hist.tries[k] > 0
    /\ hist.raised[k] = hist.tries[k]

\* the row is failed with the message of exhausted retries, n attempts, cause e
Exhausted(k, n, e) ==
    /\ db[k].status = FAILED
    /\ db[k].error_message = <<"Failed after", n, "attempts", e>>

\* an attempt succeeded: no attempt follows it, and the row ends verified
SuccessIsFinal(k) ==
    hist.last[k] = "true" =>
        /\ wpc[k] \in {"downloaded", "md5", "done"}
        /\ wpc[k] = "done" => db[k].status = VERIFIED

\* C9 as stated: an item whose every attempt raises a transient error gets exactly
\* max_retries + 1 attempts and is then failed with a message carrying that count
\* and the last cause; after an attempt that succeeds no attempt follows and the
\* row ends verified.
C9_RetriesExhausted ==
    \A k \in DOMAIN wpc :
        /\ hist.tries[k] <= Job.max_retries + 1
        /\ AllTransient(k) =>
               /\ hist.tries[k] = Job.max_retries + 1
               /\ Exhausted(k, Job.max_retries + 1, hist.last[k])
        /\ SuccessIsFinal(k)

\* C9 amended: the same, for an item whose coroutine is not stopped by the
\* shutdown flag at the top of an attempt.
C9_RetriesExhaustedUnlessShutdown ==
    \A k \in DOMAIN wpc :
        /\ hist.tries[k] <= Job.max_retries + 1
        /\ AllTransient(k) /\ k \notin hist.stopped =>
               /\ hist.tries[k] = Job.max_retries + 1
               /\ Exhausted(k, Job.max_retries + 1, hist.last[k])
        /\ SuccessIsFinal(k)

\* a row failed after MaxRetries + 1 attempts that all raised a transient error
C9_Witness ==
    \E k \in DOMAIN wpc :
        /\ AllTransient(k)
        /\ Job.max_retries = MaxRetries
        /\ k \notin hist.stopped
        /\ Exhausted(k, MaxRetries + 1, "ConnectionError")

\* C10: when an attempt raises an error outside the transient class the row is
\* failed with the message of that error after that attempt: no backoff and no
\* further attempt, whatever max_retries is.
C10_NonTransientFailsAtOnce ==
    \A k \in DOMAIN wpc :
        hist.last[k] = "ValueError" =>
            /\ wpc[k] = "done"
            /\ db[k].status = FAILED
            /\ db[k].error_message = <<"ValueError">>

\* a first attempt raised a non-transient error although retries were allowed
C10_Witness ==
    \E k \in DOMAIN wpc :
        /\ hist.last[k] = "ValueError"
        /\ hist.tries[k] = 1
        /\ Job.max_retries > 0
        /\ db[k].status = FAILED

\* the statuses written for k end with the sequence tail
EndsWith(k, tail) ==
    LET w == hist.writes[k]
    IN  /\ Len(w) >= Len(tail)
        /\ SubSeq(w, Len(w) - Len(tail) + 1, Len(w)) = tail

\* C11: with verification on in whole-product mode, when the digest of the file
\* differs from the published one the row goes downloading, downloaded, failed
\* with a message that names MD5, no transfer attempt follows in the run, and the
\* file is left on disk.
C11_DigestMismatch ==
    \A k \in DOMAIN wpc :
        hist.last[k] = "mismatch" =>
            /\ wpc[k] = "done"
            /\ db[k].status = FAILED
            /\ db[k].error_message = <<"MD5 verification failed">>
            /\ EndsWith(k, <<DOWNLOADING, DOWNLOADED, FAILED>>)
            /\ DownloadPath(k) \in DOMAIN files

\* the digest of a whole product differed although retries were allowed, and the
\* coroutine has ended after one attempt
C11_Witness ==
    \E k \in DOMAIN wpc :
        /\ hist.last[k] = "mismatch"
        /\ Job.verify_md5
        /\ Job.max_retries > 0
        /\ hist.tries[k] = 1
        /\ wpc[k] = "done"

\* C12: within one run the status writes of the downloader for one row are
\* ordered: downloaded is written right after downloading of the same attempt,
\* verified right after downloaded, and nothing is written after verified or
\* failed.
C12_WritesOrdered ==
    \A k \in DOMAIN hist.writes :
        LET w == hist.writes[k]
        IN  \A i \in 1..Len(w) :
                /\ w[i] = DOWNLOADED => i > 1 /\ w[i - 1] = DOWNLOADING
                /\ w[i] = VERIFIED => i > 1 /\ w[i - 1] = DOWNLOADED
                /\ w[i] \in {VERIFIED, FAILED} => i = Len(w)

\* two rows of one job have their writes at different points: one is verified
\* after a retry, the other is failed
C12_Witness ==
    \E k1, k2 \in DOMAIN hist.writes :
        /\ hist.writes[k1] = <<DOWNLOADING, DOWNLOADING, DOWNLOADED, VERIFIED>>
        /\ EndsWith(k2, <<DOWNLOADING, FAILED>>)

-----------------------------------------------------------------------------
(* The specification of the state database alone: upsert, update_status and   *)
(* reset_stale_downloads called in any order on the rows of two jobs          *)

StoreKeys == {WholeKey("P1"), WholeKey("P2")}
StoreJobs == {"j1", "j2"}

StoreFrame == <<cfg, files, sessionExists, searchCached, pcMain, jobIdx, pshutdown,
                dshutdown, isNew, products, regTodo, wpc, attempt, thr, queue, cpc,
                crec, clean, calm, runs, timeouts, hist, fs, srch>>

\* state_db.upsert(ProductRecord(product_id, job_name, status=...))
StoreUpsert ==
    /\ \E key \in StoreKeys, j \in StoreJobs, status \in ProductStatus :
           db' = Upsert(db, key, j, ProductRecord(status))
    /\ lastCall' = [op |-> "upsert"]
    /\ UNCHANGED StoreFrame

\* state_db.update_status(product_id, job_name, status)
StoreUpdateStatus ==
    /\ \E key \in StoreKeys, j \in StoreJobs, status \in ProductStatus :
           db' = UpdateStatus(db, key, j, status)
    /\ lastCall' = [op |-> "update_status"]
    /\ UNCHANGED StoreFrame

\* n = state_db.reset_stale_downloads(job_name)
StoreResetStale ==
    /\ \E j \in StoreJobs :
           /\ db' = ResetStaleDownloads(db, j)
           /\ lastCall' = [op |-> "reset_stale_downloads", job_name |-> j,
                           before |-> db, rowcount |-> ResetStaleCount(db, j)]
    /\ UNCHANGED StoreFrame

\* rows = state_db.get_resumable(job_name)
StoreGetResumable ==
    /\ \E j \in StoreJobs :
           lastCall' = [op |-> "get_resumable", job_name |-> j,
                        result |-> GetResumable(db, j)]
    /\ UNCHANGED db
    /\ UNCHANGED StoreFrame

\* no job runs: the configuration is that of a pipeline that is not started
StoreConfig ==
    [jobs |-> <<JobConfig("j1", <<"P1">>, NoEntries, 1, TRUE, TRUE, MaxRetries, FALSE, TRUE)>>,
     post_processor |-> FALSE]

InitStore == InitWith({StoreConfig}, {TRUE}, {TRUE})

NextStore ==
    \/ StoreUpsert
    \/ StoreUpdateStatus
    \/ StoreResetStale
    \/ StoreGetResumable

SpecStore == InitStore /\ [][NextStore]_vars

\* C4: reset_stale(job) changes every downloading row of the job to pending and
\* returns the number of rows it changed; after it no row of the job is
\* downloading, and the rows of other jobs and the rows of the job in another
\* status keep their status.
C4_ResetStale ==
    lastCall.op = "reset_stale_downloads" =>
        LET before == lastCall.before
            stale == {k \in DOMAIN before :
                         k[2] = lastCall.job_name /\ before[k].status = DOWNLOADING}
        IN  /\ DOMAIN db = DOMAIN before
            /\ \A k \in stale : db[k].status = PENDING
            /\ \A k \in (DOMAIN db) \ stale : db[k].status = before[k].status
            /\ lastCall.rowcount = Cardinality(stale)
            /\ \A k \in DOMAIN db : k[2] = lastCall.job_name => db[k].status # DOWNLOADING

\* reset_stale has changed both rows of a job while a row of the other job was
\* downloading, and still is
C4_Witness ==
    /\ lastCall.op = "reset_stale_downloads"
    /\ lastCall.rowcount = 2
    /\ \E k \in DOMAIN db : k[2] # lastCall.job_name /\ db[k].status = DOWNLOADING

\* C22: get_resumable(job) returns exactly the rows of that job whose status is
\* pending, downloading or failed; a row that is downloaded, verified,
\* processing or processed, and a row of another job, is never returned. The
\* call changes no row.
C22_GetResumable ==
    lastCall.op = "get_resumable" =>
        /\ lastCall.result =
               {k \in DOMAIN db : /\ k[2] = lastCall.job_name
                                  /\ db[k].status \in {"pending", "downloading", "failed"}}
        /\ \A k \in lastCall.result :
               /\ k[2] = lastCall.job_name
               /\ db[k].status \notin {"downloaded", "verified", "processing", "processed"}

\* get_resumable has returned a downloading row of the job and has left out a
\* verified row of the job and a pending row of the other job
C22_Witness ==
    /\ lastCall.op = "get_resumable"
    /\ \E k \in lastCall.result : db[k].status = DOWNLOADING
    /\ \E k \in DOMAIN db : /\ k[2] = lastCall.job_name /\ db[k].status = VERIFIED
                             /\ k \notin lastCall.result
    /\ \E k \in DOMAIN db : /\ k[2] # lastCall.job_name /\ db[k].status = PENDING
                             /\ k \notin lastCall.result

-----------------------------------------------------------------------------
(* The specification of a job of a session that is not live, over several    *)
(* invocations: the second invocation finds the search cache populated       *)

\* one job that is not live: two products in whole-product mode, download-only
\* with a retry or with the digest check and the hook, or one product in entry
\* mode
CachedConfigs ==
    {[jobs |-> <<JobConfig("j1", <<"P1", "P2">>, NoEntries, 1, TRUE, pp,
                           IF pp THEN 0 ELSE MaxRetries, pp, FALSE)>>,
      post_processor |-> pp] : pp \in BOOLEAN}
    \cup
    {[jobs |-> <<JobConfig("j1", <<"P1">>, {"g"}, 1, TRUE, FALSE, 0, FALSE, FALSE)>>,
      post_processor |-> FALSE]}

InitCached == InitWith(CachedConfigs, {FALSE}, {FALSE})

NextCached ==
    \/ Pipeline
    \/ Downloader
    \/ Consumer
    \/ Kill
    \/ Restart

SpecCached == InitCached /\ [][NextCached]_vars

\* the job searched last in this invocation, and whether its search took the
\* cached path
LastSearched == cfg.jobs[hist.searched[Len(hist.searched)]]
CachedResume == hist.searched # <<>> /\ hist.cached[Len(hist.searched)]

\* the rows of an item in the table handed to the search
RowsAtCall(job, p) ==
    {<<k, job.name>> : k \in KeysOf(p, job.entries)}

\* C24: when a session that is not live is interrupted after its search cache
\* was populated, the next invocation (session not new, not live, cache
\* populated) hands to the downloader every item of the search result that does
\* not yet have a verified or processed row, the items without any row included.
C24_CachedResumeHandsAll ==
    CachedResume =>
        \A n \in 1..Len(LastSearched.items) :
            LET p == LastSearched.items[n]
            IN  (\E k \in RowsAtCall(LastSearched, p) :
                     \/ k \notin DOMAIN hist.dbAtCall
                     \/ hist.dbAtCall[k].status \notin {"verified", "processed"})
                => \E i \in 1..Len(products) : products[i] = p

\* the same for whole-product jobs and rows that are not downloaded: the items
\* left without a row
C24_CachedResumeHandsUnregistered ==
    CachedResume /\ LastSearched.entries = NoEntries =>
        \A n \in 1..Len(LastSearched.items) :
            LET p == LastSearched.items[n]
            IN  <<WholeKey(p), LastSearched.name>> \notin DOMAIN hist.dbAtCall
                => \E i \in 1..Len(products) : products[i] = p

\* the cached path was taken after a kill while an item of a whole-product job
\* had no row, another item having a pending row
C24_Witness ==
    /\ CachedResume
    /\ hist.afterKill
    /\ LastSearched.entries = NoEntries
    /\ <<WholeKey("P1"), "j1">> \in DOMAIN hist.dbAtCall
    /\ <<WholeKey("P2"), "j1">> \notin DOMAIN hist.dbAtCall

\* the items that own a resumable row of the job in the table handed to the search
OwnersOfResumable(job) ==
    {DecodeEntryKey(k[1])[1] :
        k \in {r \in DOMAIN hist.dbAtCall :
                  /\ r[2] = job.name
                  /\ hist.dbAtCall[r].status \in {"pending", "downloading", "failed"}}}

\* C25: on the cached-resume path the set of catalog items passed on to the
\* downloader is exactly the set of items that own at least one resumable row,
\* in whole-product mode and in entry mode (rows keyed
\* "<item-id>::entry::<entry-name>"), so that every resumable row gets a
\* transfer attempt in the resumed run.
C25_CachedResumeItems ==
    CachedResume =>
        {products[i] : i \in 1..Len(products)} = OwnersOfResumable(LastSearched)

\* the same for whole-product jobs only
C25_CachedResumeWholeProducts ==
    CachedResume /\ LastSearched.entries = NoEntries =>
        {products[i] : i \in 1..Len(products)} = OwnersOfResumable(LastSearched)

\* the cached path was taken by an entry-mode job that has a resumable row
C25_Witness ==
    /\ CachedResume
    /\ LastSearched.entries # NoEntries
    /\ OwnersOfResumable(LastSearched) # {}

\* an invocation that followed a kill has finished without fault or signal, in
\* a job with post-processing enabled and a hook supplied
ResumedWithHook ==
    /\ pcMain = "finished"
    /\ hist.afterKill
    /\ clean /\ calm
    /\ cfg.jobs[1].post_process /\ cfg.post_processor
    /\ hist.searched # <<>>

\* the rows the interrupted run left in one of the statuses, as the search of
\* this invocation found them
LeftIn(statuses) ==
    {k \in DOMAIN hist.dbAtCall : hist.dbAtCall[k].status \in statuses}

\* the hook was called for the row in this invocation and the row ends
\* processed or failed
HookedNow(k) ==
    /\ k \in DOMAIN hist.hook
    /\ db[k].status \in {"processed", "failed"}

\* C26: with post-processing enabled and a hook supplied, when a run is
\* interrupted while rows are verified (not yet handed to the hook) or
\* processing (hook running), a later invocation of the job calls the hook for
\* each of those rows, so that each ends processed or failed, in live and in
\* non-live sessions.
C26_HookAfterInterrupt ==
    ResumedWithHook => \A k \in LeftIn({"verified", "processing"}) : HookedNow(k)

\* the part that concerns the rows left verified
C26_HookForVerified ==
    ResumedWithHook => \A k \in LeftIn({"verified"}) : HookedNow(k)

\* an invocation after a kill that left a row processing has finished
C26_Witness ==
    /\ ResumedWithHook
    /\ LeftIn({"processing"}) # {}

\* an invocation after a kill that left a row verified has finished
C26_WitnessVerified ==
    /\ ResumedWithHook
    /\ LeftIn({"verified"}) # {}

\* the steps of the per-row state machine: the way to verified and processed,
\* the failures, the recovery by reset_stale and the new attempt on a failed row
\* (a new attempt on a downloading row leaves the status as it is)
Transitions ==
    {<<"pending", "downloading">>, <<"downloading", "downloaded">>,
     <<"downloaded", "verified">>, <<"verified", "processing">>,
     <<"processing", "processed">>,
     <<"downloading", "failed">>, <<"downloaded", "failed">>, <<"processing", "failed">>,
     <<"downloading", "pending">>, <<"failed", "downloading">>}

\* C27: every row's status is one of the seven values and every status write
\* follows the per-row state machine: rows are created only as pending, no row
\* is removed, and a write changes a row only along pending->downloading,
\* downloading->downloaded, downloaded->verified, verified->processing,
\* processing->processed, downloading/downloaded/processing->failed, plus
\* downloading->pending (reset_stale) and failed->downloading (new attempt).
C27_StateMachine ==
    [][/\ DOMAIN db \subseteq DOMAIN db'
       /\ \A k \in DOMAIN db' :
             /\ db'[k].status \in {"pending", "downloading", "downloaded", "verified",
                                   "processing", "processed", "failed"}
             /\ IF k \notin DOMAIN db
                   THEN db'[k].status = "pending"
                   ELSE \/ db'[k].status = db[k].status
                        \/ <<db[k].status, db'[k].status>> \in Transitions]_vars

\* a row that failed in the hook has been attempted again after a kill, and a
\* stale downloading row has been reset
C27_Witness ==
    /\ hist.afterKill
    /\ \E k \in DOMAIN db :
          /\ k \in DOMAIN hist.dbAtCall
          /\ hist.dbAtCall[k].status = FAILED
          /\ db[k].status = PROCESSED

-----------------------------------------------------------------------------
(* state.py: upsert and get on rows with every column                        *)

\* the columns of the products table besides the key
Columns == {"collection", "size_kb", "md5", "bytes_downloaded", "status",
            "download_path", "error_message", "created_at", "updated_at"}

\* ProductRecord(product_id, job_name, collection) with the defaults of the dataclass
DefaultRecord ==
    [collection |-> "COL1", size_kb |-> 0, md5 |-> "", bytes_downloaded |-> 0,
     status |-> PENDING, download_path |-> "", error_message |-> "",
     created_at |-> "", updated_at |-> ""]

\* a record that differs from the default one in every field a caller sets
OtherRecord ==
    [collection |-> "COL2", size_kb |-> 1, md5 |-> "d41d", bytes_downloaded |-> 1,
     status |-> VERIFIED, download_path |-> "/tmp/P1.zip", error_message |-> "boom",
     created_at |-> "", updated_at |-> ""]

\* the records callers pass: the default one, the other one, the default one
\* with one field changed, and the other one with the created_at an earlier use
\* of the object has left in it
UpsertRecords ==
    {DefaultRecord, OtherRecord, [OtherRecord EXCEPT !.created_at = "t0"]}
        \cup {[DefaultRecord EXCEPT ![f] = OtherRecord[f]] :
                 f \in Columns \ {"created_at", "updated_at"}}

\* datetime.now(UTC).isoformat()
Clock == {"t1", "t2"}

\* upsert: if not record.created_at: record.created_at = now; record.updated_at = now
Stamp(record, now) ==
    [record EXCEPT !.created_at = IF @ = "" THEN now ELSE @, !.updated_at = now]

UpsertKeys == {<<WholeKey("P1"), j>> : j \in StoreJobs}

UpsertFrame == <<cfg, files, sessionExists, searchCached, pcMain, jobIdx, pshutdown,
                 dshutdown, isNew, products, regTodo, wpc, attempt, thr, queue, cpc,
                 crec, clean, calm, runs, timeouts, fs, srch>>

\* state_db.upsert(record)
StoreUpsertRecord ==
    /\ \E k \in UpsertKeys, record \in UpsertRecords, now \in Clock :
           LET stamped == Stamp(record, now)
           IN  /\ db' = Upsert(db, k[1], k[2], stamped)
               /\ hist' = [hist EXCEPT
                      !.firstRecord =
                          IF k \in DOMAIN @ THEN @
                          ELSE (k :> [collection |-> stamped.collection,
                                      created_at |-> stamped.created_at]) @@ @,
                      !.lastRecord = (k :> stamped) @@ @]
               /\ lastCall' = [op |-> "upsert", key |-> k]
    /\ UNCHANGED UpsertFrame

\* got = state_db.get(product_id, job_name)
StoreGet ==
    /\ \E k \in UpsertKeys :
           lastCall' = [op |-> "get", key |-> k,
                        found |-> Exists(db, k[1], k[2]),
                        got |-> IF Exists(db, k[1], k[2]) THEN Get(db, k[1], k[2])
                                ELSE DefaultRecord]
    /\ UNCHANGED <<db, hist>>
    /\ UNCHANGED UpsertFrame

NextUpsert ==
    \/ StoreUpsertRecord
    \/ StoreGet

SpecUpsert == InitStore /\ [][NextUpsert]_vars

\* the fields of the claim other than created-at
WrittenFields == {"collection", "size_kb", "md5", "bytes_downloaded", "status",
                  "download_path", "error_message"}

\* C23: after any sequence of upserts there is exactly one row per (item id,
\* job name) pair upserted, and get(item, job) returns the field values of the
\* last upsert for that pair for every field of the row (collection, size,
\* digest, bytes, status, path, error message) except created-at, which stays
\* as set by the first insert.
C23_UpsertThenGet ==
    /\ DOMAIN db = DOMAIN hist.lastRecord
    /\ lastCall.op = "get" =>
           /\ lastCall.found = (lastCall.key \in DOMAIN hist.lastRecord)
           /\ lastCall.found =>
                  /\ \A f \in WrittenFields :
                         lastCall.got[f] = hist.lastRecord[lastCall.key][f]
                  /\ lastCall.got.created_at = hist.firstRecord[lastCall.key].created_at

\* what holds of upsert and get: the fields ON CONFLICT names are those of the
\* last upsert, collection and created_at those of the first
C23_UpsertThenGetKeepsCollection ==
    /\ DOMAIN db = DOMAIN hist.lastRecord
    /\ lastCall.op = "get" =>
           /\ lastCall.found = (lastCall.key \in DOMAIN hist.lastRecord)
           /\ lastCall.found =>
                  /\ \A f \in WrittenFields \ {"collection"} :
                         lastCall.got[f] = hist.lastRecord[lastCall.key][f]
                  /\ lastCall.got.updated_at = hist.lastRecord[lastCall.key].updated_at
                  /\ lastCall.got.collection = hist.firstRecord[lastCall.key].collection
                  /\ lastCall.got.created_at = hist.firstRecord[lastCall.key].created_at

\* get returns a row that was upserted more than once, the last time with
\* another collection, another status and at another time than the first
C23_Witness ==
    /\ lastCall.op = "get"
    /\ lastCall.found
    /\ LET first == hist.firstRecord[lastCall.key]
           last == hist.lastRecord[lastCall.key]
       IN  /\ first.collection # last.collection
           /\ first.created_at # last.created_at
           /\ last.status = VERIFIED
           /\ lastCall.got.status = VERIFIED

-----------------------------------------------------------------------------
(* The specification of a job over several invocations: a process can be     *)
(* killed at any point, and the job be invoked again                          *)

\* one job of one product, download-only or with the post-processing hook
ResumeConfigs ==
    {[jobs |-> <<JobConfig("j1", <<"P1">>, NoEntries, 1, resume, verify_md5,
                           0, pp, TRUE)>>,
      post_processor |-> pp] :
        resume \in BOOLEAN, verify_md5 \in BOOLEAN, pp \in BOOLEAN}

\* one download-only job of two products that take turns, with a retry
TakeTurnsConfig ==
    [jobs |-> <<JobConfig("j1", <<"P1", "P2">>, NoEntries, 1, TRUE, FALSE,
                          MaxRetries, FALSE, TRUE)>>,
     post_processor |-> FALSE]

InitResume == InitWith(ResumeConfigs \cup {TakeTurnsConfig}, {FALSE}, {FALSE})

NextResume ==
    \/ Pipeline
    \/ Downloader
    \/ Consumer
    \/ Kill
    \/ Restart

SpecResume == InitResume /\ [][NextResume]_vars

\* C1: in a download-only job, when the process is killed at any point of a run
\* and the job is invoked again with every transfer and digest check succeeding,
\* the later invocation ends with every registered row of the job verified.
C1_ResumeAfterKill ==
    /\ pcMain = "finished"
    /\ hist.afterKill
    /\ clean
    /\ ~cfg.jobs[1].post_process
    => \A k \in DOMAIN db : db[k].status = VERIFIED

\* C3: no status write changes a row from verified or processed back to pending,
\* downloading or downloaded, and a processed row never changes status again,
\* over any sequence of invocations (registration, reset_stale, the downloader,
\* the post-process consumer).
C3_NoRegress ==
    [][\A k \in DOMAIN db :
          /\ db[k].status \in {VERIFIED, PROCESSED} =>
                 db'[k].status \notin {PENDING, DOWNLOADING, DOWNLOADED}
          /\ db[k].status = PROCESSED => db'[k].status = PROCESSED]_vars

\* a second invocation has run registration, reset_stale and the downloader to
\* their end over a row that was processed when it began
C3_Witness ==
    /\ runs = 2
    /\ pcMain = "finished"
    /\ \E k \in hist.settled : db[k].status = PROCESSED

\* C19: for each job Pipeline.run calls reset_stale exactly when the session
\* is not new, before the search of the job and before any row of the job is
\* marked downloading in this run; for a new session it is never called.
\* Every job that is searched, and every job with a row marked downloading in
\* this run, has passed that point.
C19_ResetBeforeWork ==
    LET passed == {hist.resets[i].job : i \in 1..Len(hist.resets)}
    IN  /\ \A i \in 1..Len(hist.resets) :
              /\ hist.resets[i].called = ~hist.resets[i].is_new
              /\ ~hist.resets[i].searched /\ ~hist.resets[i].marked
              /\ \A j \in 1..Len(hist.resets) : hist.resets[j].job = hist.resets[i].job => j = i
        /\ \A i \in 1..Len(hist.searched) : hist.searched[i] \in passed
        /\ \A k \in DOMAIN hist.writes :
              hist.writes[k] # <<>> => \E j \in passed : cfg.jobs[j].name = k[2]

\* the invocation after a kill resets a stale row of a resumed session and
\* then marks it downloading again
C19_Witness ==
    /\ hist.afterKill
    /\ \E i \in 1..Len(hist.resets) :
          /\ hist.resets[i].called /\ hist.resets[i].rowcount >= 1
          /\ \E k \in DOMAIN hist.writes :
                k[2] = cfg.jobs[hist.resets[i].job].name /\ hist.writes[k] # <<>>

-----------------------------------------------------------------------------
(* The specification of one invocation over two jobs, with the signal handler *)

\* a job of two products that take turns, then a job of one product; both
\* download-only or both with the post-processing hook
PipeConfigs ==
    {[jobs |-> <<JobConfig("j1", <<"P1", "P2">>, NoEntries, 1, TRUE, verify_md5,
                           MaxRetries, pp, TRUE),
                 JobConfig("j2", <<"P1">>, NoEntries, 1, TRUE, verify_md5,
                           0, pp, TRUE)>>,
      post_processor |-> pp] :
        verify_md5 \in BOOLEAN, pp \in BOOLEAN}

InitPipe == InitWith(PipeConfigs, {FALSE}, {FALSE})

NextPipe ==
    \/ Pipeline
    \/ Downloader
    \/ Consumer
    \/ HandleSignal

SpecPipe == InitPipe /\ [][NextPipe]_vars

\* C7: when the signal sets the flag of the orchestrator while the downloader of
\* a job is running, the flag of that downloader becomes set (so that its
\* transfers stop at the next chunk and its queued items start no transfer):
\* that downloader does not return with its own flag unset.
C7_FlagPropagates ==
    [][(/\ pshutdown
        /\ hist.flagAt \in {"register", "gather"}
        /\ pcMain \in {"register", "gather"}
        /\ pcMain' \notin {"register", "gather"})
       => Job.name \in dshutdown]_vars

\* C8: the jobs are searched one after the other in the order of the
\* configuration, and once the flag of the orchestrator is set no further job is
\* started: set before run() no job is searched, set during job k no job after k
\* is searched or gets a row or a transfer.
C8_NoJobAfterShutdown ==
    /\ \A i \in 1..Len(hist.searched) : hist.searched[i] = i
    /\ \A k \in DOMAIN wpc : k[2] = Job.name
    /\ hist.flagSet =>
          /\ Len(hist.searched) <= hist.flagJob
          /\ \A k \in DOMAIN db :
                 \E i \in 1..hist.flagJob : cfg.jobs[i].name = k[2]

\* the signal arrived during the first of two jobs, which was searched and has
\* rows, and the run has ended
C8_Witness ==
    /\ pcMain = "finished"
    /\ hist.flagSet
    /\ hist.flagJob = 1
    /\ hist.searched = <<1>>
    /\ Len(cfg.jobs) = 2
    /\ db # <<>>

\* the records of the queue
Enqueued(q) == {q[i] : i \in 1..Len(q)} \ {SENTINEL}

\* C13: every record handed to the post-process hook was marked verified in the
\* state store before it was put on the queue: a record is verified when it is
\* enqueued, and the hook only gets the record at the head of the queue, which
\* is still verified at that moment.
C13_OnlyVerifiedReachHook ==
    [][/\ \A rec \in Enqueued(queue') \ Enqueued(queue) :
              db[rec].status = VERIFIED /\ db'[rec].status = VERIFIED
       /\ (cpc' = "hook" /\ cpc # "hook") =>
              /\ queue # <<>>
              /\ crec' = Head(queue)
              /\ db[crec'].status = VERIFIED]_vars

\* a record is with the hook while another row of its job is failed and is
\* neither on the queue nor with the hook
C13_Witness ==
    /\ cpc = "hook"
    /\ \E k \in DOMAIN db :
           /\ k[2] = crec[2]
           /\ db[k].status = FAILED
           /\ k \notin Enqueued(queue)
           /\ k \notin DOMAIN hist.hook

\* C14: for every record the consumer dequeues it writes processing, calls the
\* hook once with (download path, item id), then writes processed if the hook
\* returns and failed with the message of the hook if it raises; the hook is
\* never called again for the record in the run.
C14_HookOncePerRecord ==
    \A rec \in DOMAIN hist.hook :
        LET calls == hist.hook[rec]
        IN  /\ Len(calls) = 1
            /\ calls[1].args = <<DownloadPath(rec), rec[1]>>
            /\ calls[1].outcome = "running" =>
                   cpc = "hook" /\ crec = rec /\ db[rec].status = PROCESSING
            /\ calls[1].outcome = "returned" => db[rec].status = PROCESSED
            /\ calls[1].outcome = "raised" =>
                   /\ db[rec].status = FAILED
                   /\ db[rec].error_message = <<"Post-processing failed", "RuntimeError">>

\* the hook has raised for one record of a job and returned for another
C14_Witness ==
    \E r1, r2 \in DOMAIN hist.hook :
        /\ r1[2] = r2[2]
        /\ hist.hook[r1][1].outcome = "raised"
        /\ hist.hook[r2][1].outcome = "returned"

-----------------------------------------------------------------------------
(* The specification of a job invoked again after it has ended: entries of    *)
(* two products, or one whole product                                         *)

ClashConfigs ==
    {[jobs |-> <<JobConfig("j1", <<"P1", "P2">>, {"g"}, 1, resume, FALSE,
                           MaxRetries, FALSE, TRUE)>>,
      post_processor |-> FALSE] : resume \in BOOLEAN}
    \cup
    {[jobs |-> <<JobConfig("j1", <<"P1">>, NoEntries, 1, TRUE, TRUE,
                           0, FALSE, TRUE)>>,
      post_processor |-> FALSE]}

InitClash == InitWith(ClashConfigs, {FALSE}, {TRUE})

NextClash ==
    \/ Pipeline
    \/ Downloader
    \/ Restart

SpecClash == InitClash /\ [][NextClash]_vars

\* the file of a row is as it was when download_all was called
FileUntouched(k) ==
    LET path == DownloadPath(k)
    IN  /\ path \in DOMAIN files <=> path \in DOMAIN hist.filesAtCall
        /\ path \in DOMAIN files => files[path] = hist.filesAtCall[path]

\* C2: for every row that is verified or processed when download_all is called,
\* download_all starts no transfer for the row and writes neither its state row
\* nor its file, whatever other items and rows the job has.
C2_TerminalRowsUntouched ==
    pcMain \in {"register", "gather"} =>
        \A k \in hist.settled :
            /\ k \notin DOMAIN wpc
            /\ \A s \in DOMAIN thr : s[1] # k
            /\ db[k] = hist.dbAtCall[k]
            /\ FileUntouched(k)

\* the finally block ran for the job whose search raised
C18_ResourcesClosed ==
    hist.failed # 0 => hist.closed # <<>> /\ hist.closed[Len(hist.closed)] = hist.failed

\* C18: when a job fails with an error, its state store and log handler are
\* closed and Pipeline.run goes on with the jobs after it: the error does
\* not end the run.
C18_ErrorDoesNotEndRun ==
    hist.failed # 0 =>
        /\ hist.closed # <<>> /\ hist.closed[Len(hist.closed)] >= hist.failed
        /\ pcMain # "raised"

-----------------------------------------------------------------------------
(* The remote filesystem: TokenRefreshingHTTPFileSystem and the coroutines
   that call its wrapped operations on one event loop.  Tokens are numbered in
   the order the credential source issues them. *)

MaxCallers == 2
MaxTokens == 3

Callers == 1..MaxCallers
Ops == {"_cat_file", "_info", "_ls_real", "_exists"}
NoSession == <<>>
Free == 0

\* f"Bearer {token}"
Bearer(token) == <<"Bearer", token>>

RemoteFrame == <<cfg, db, files, sessionExists, searchCached, pcMain, jobIdx, pshutdown,
                 dshutdown, isNew, products, regTodo, wpc, attempt, thr, queue, cpc,
                 crec, clean, calm, runs, timeouts, hist, lastCall, srch>>

NoCaller ==
    [pc |-> "idle", op |-> "none",
     tries |-> 0,           \* calls of coro_func made for this call
     refreshes |-> 0,       \* calls of _update_auth made for this call
     asked |-> 0,           \* reads of token_obj.access_token made for this call
     fetched |-> <<>>,      \* the tokens the credential source gave this call
     sent |-> <<>>,         \* the Authorization header of the request in flight
     answer |-> "none",     \* what the server would answer to that request
     first |-> "none",      \* outcome of the first attempt
     second |-> "none",     \* outcome of the retry
     result |-> "none",     \* what the caller of the wrapped operation gets
     stale |-> <<>>,        \* the header whose request got this call its 401
     wrote |-> {},          \* the headers this call stored
     closed |-> 0]          \* the sessions this call closed

\* __init__: the header is built from the token the source holds then
NewFs ==
    [header |-> Bearer(1), tok |-> 1, session |-> NoSession, lock |-> Free,
     call |-> [c \in Callers |-> NoCaller]]

Call(c) == fs.call[c]

\* the credential source issues a new token; requests carrying an older one
\* are answered 401 from now on
Rotate ==
    /\ fs.tok < MaxTokens
    /\ fs' = [fs EXCEPT !.tok = @ + 1]
    /\ UNCHANGED RemoteFrame

\* a coroutine calls one of the wrapped operations
Start(c) ==
    /\ Call(c).pc = "idle"
    /\ \E op \in Ops : fs' = [fs EXCEPT !.call[c].pc = "first", !.call[c].op = op]
    /\ UNCHANGED RemoteFrame

\* set_session of the parent class: a session is built from self.kwargs when
\* there is none
SetSession == IF fs.session = NoSession THEN [auth |-> fs.header, closed |-> FALSE]
              ELSE fs.session

\* coro_func is entered: the request leaves on the session
Send(c) ==
    /\ Call(c).pc \in {"first", "retry"}
    /\ fs' = [fs EXCEPT !.session = SetSession,
                        !.call[c].pc = IF Call(c).pc = "first" THEN "wait1" ELSE "wait2",
                        !.call[c].tries = @ + 1,
                        !.call[c].sent = SetSession.auth,
                        !.call[c].answer = IF SetSession.closed THEN "RuntimeError"
                                           ELSE IF SetSession.auth = Bearer(fs.tok) THEN "ok"
                                           ELSE "401"]
    /\ UNCHANGED RemoteFrame

\* what coro_func can end with: the server's answer, another HTTP status, or
\* an error that is not an HTTP response
Outcomes(c) == IF Call(c).answer = "RuntimeError" THEN {"RuntimeError"}
               ELSE {Call(c).answer, "500", "ClientConnectionError"}

\* line 130-132: only ClientResponseError is caught, and rethrown unless 401
NeedsRefreshAnyStatus(o) == o \in {"401", "500"}

NeedsRefresh(o) == o = "401"

\* the first attempt ends
Receive(c) ==
    /\ Call(c).pc = "wait1"
    /\ \E o \in Outcomes(c) :
          fs' = IF NeedsRefresh(o)
                THEN [fs EXCEPT !.call[c].first = o, !.call[c].pc = "lock",
                                !.call[c].refreshes = @ + 1,
                                !.call[c].stale = Call(c).sent]
                ELSE [fs EXCEPT !.call[c].first = o, !.call[c].pc = "done",
                                !.call[c].result = o]
    /\ UNCHANGED RemoteFrame

\* async with self._refresh_lock
Acquire(c) ==
    /\ Call(c).pc = "lock"
    /\ fs.lock = Free
    /\ fs' = [fs EXCEPT !.lock = c, !.call[c].pc = "fetch"]
    /\ UNCHANGED RemoteFrame

\* the comparison of line 108
SameAuthNever(header, new_auth) == FALSE

SameAuth(header, new_auth) == header = new_auth

\* the thread of _refresh_token_task returns the token of the source; the
\* coroutine compares, stores the header and starts closing the session, all
\* before its next await
UpdateAuth(c) ==
    /\ Call(c).pc = "fetch"
    /\ LET new_auth == Bearer(fs.tok)
           got == [fs EXCEPT !.call[c].asked = @ + 1,
                            !.call[c].fetched = Append(@, fs.tok)]
       IN  fs' = IF SameAuth(fs.header, new_auth)
                 THEN [got EXCEPT !.lock = Free, !.call[c].pc = "retry"]
                 ELSE IF fs.session = NoSession
                 THEN [got EXCEPT !.header = new_auth, !.lock = Free,
                                  !.call[c].wrote = @ \cup {new_auth},
                                  !.call[c].pc = "retry"]
                 ELSE [got EXCEPT !.header = new_auth,
                                  !.session.closed = TRUE,
                                  !.call[c].wrote = @ \cup {new_auth},
                                  !.call[c].pc = "closing"]
    /\ UNCHANGED RemoteFrame

\* token_obj.access_token raises: the lock is released and the error leaves
\* _run_with_refresh from inside its except clause
UpdateAuthRaises(c) ==
    /\ Call(c).pc = "fetch"
    /\ fs' = [fs EXCEPT !.lock = Free, !.call[c].pc = "done",
                        !.call[c].asked = @ + 1,
                        !.call[c].result = "TokenError"]
    /\ UNCHANGED RemoteFrame

\* await self._session.close() returns; self._session = None
SessionClosed(c) ==
    /\ Call(c).pc = "closing"
    /\ fs' = [fs EXCEPT !.session = NoSession, !.lock = Free,
                        !.call[c].closed = @ + 1, !.call[c].pc = "retry"]
    /\ UNCHANGED RemoteFrame

\* the retry ends: whatever it is goes to the caller
ReceiveRetry(c) ==
    /\ Call(c).pc = "wait2"
    /\ \E o \in Outcomes(c) :
          fs' = [fs EXCEPT !.call[c].second = o, !.call[c].pc = "done",
                           !.call[c].result = o]
    /\ UNCHANGED RemoteFrame

InitRemote ==
    /\ InitProcess({StoreConfig}, {TRUE}, {TRUE})
    /\ fs = NewFs
    /\ srch = NoSearch

NextRemote ==
    \/ Rotate
    \/ \E c \in Callers : Start(c)
    \/ \E c \in Callers : Send(c)
    \/ \E c \in Callers : Receive(c)
    \/ \E c \in Callers : Acquire(c)
    \/ \E c \in Callers : UpdateAuth(c)
    \/ \E c \in Callers : UpdateAuthRaises(c)
    \/ \E c \in Callers : SessionClosed(c)
    \/ \E c \in Callers : ReceiveRetry(c)

SpecRemote == InitRemote /\ [][NextRemote]_vars

\* what the call of c ended with, seen from its caller
Finished(c) == Call(c).pc = "done"

\* C15 as stated: a wrapped operation is attempted at most twice per call; a
\* 401 on the first attempt is followed by one refresh and exactly one
\* retry, and the outcome of the retry, whatever it is, is what the caller
\* gets; any other failure of the first attempt goes to the caller as it is,
\* with no refresh and no read of the credential source.
C15_RetryOnce ==
    \A c \in Callers :
        /\ Call(c).tries <= 2 /\ Call(c).refreshes <= 1 /\ Call(c).asked <= 1
        /\ Finished(c) =>
              IF Call(c).first = "401"
              THEN /\ Call(c).refreshes = 1 /\ Call(c).tries = 2
                   /\ Call(c).result = Call(c).second
              ELSE /\ Call(c).tries = 1 /\ Call(c).refreshes = 0 /\ Call(c).asked = 0
                   /\ Call(c).result = Call(c).first

\* C15 (amended): as above, unless the credential source raises during the
\* refresh; then that error goes to the caller and no retry is made.
C15_RetryOnceUnlessRefreshRaises ==
    \A c \in Callers :
        /\ Call(c).tries <= 2 /\ Call(c).refreshes <= 1 /\ Call(c).asked <= 1
        /\ Finished(c) =>
              IF Call(c).first = "401"
              THEN /\ Call(c).refreshes = 1 /\ Call(c).asked = 1
                   /\ IF Call(c).fetched = <<>>
                      THEN Call(c).tries = 1 /\ Call(c).result = "TokenError"
                      ELSE Call(c).tries = 2 /\ Call(c).result = Call(c).second
              ELSE /\ Call(c).tries = 1 /\ Call(c).refreshes = 0 /\ Call(c).asked = 0
                   /\ Call(c).result = Call(c).first

\* one call got a second 401 from its retry, another failed with a status
\* that is not 401
C15_Witness ==
    \E c, d \in Callers :
        /\ Finished(c) /\ Call(c).first = "401" /\ Call(c).result = "401"
        /\ Finished(d) /\ Call(d).result = "500" /\ Call(d).tries = 1

\* the calls whose first attempt was answered 401 to a request carrying header h
Rejected(h) == {c \in Callers : Call(c).first = "401" /\ Call(c).stale = h}

\* the call is not inside _update_auth
OutOfRefresh(c) == Call(c).pc \notin {"lock", "fetch", "closing"}

Writers(auth) == {c \in Callers : auth \in Call(c).wrote}

\* several calls were rejected with the same stale header h, the credential
\* source gave every one of them the same new token t, and all have left
\* the refresh
SameStaleToken(h, t) ==
    /\ Cardinality(Rejected(h)) >= 2
    /\ h # Bearer(t)
    /\ \A c \in Rejected(h) : Call(c).fetched = <<t>> /\ OutOfRefresh(c)

OneReplaces(h, t) ==
    \E w \in Rejected(h) :
        /\ Writers(Bearer(t)) = {w}
        /\ Call(w).wrote = {Bearer(t)} /\ Call(w).closed = 1
        /\ \A c \in Rejected(h) \ {w} : Call(c).wrote = {} /\ Call(c).closed = 0
        /\ fs.tok = t => fs.header = Bearer(t)

WrittenUnderLock ==
    /\ fs'.header # fs.header =>
          fs.lock # Free /\ fs'.header \in fs'.call[fs.lock].wrote
    /\ \A c \in Callers : fs'.call[c].wrote # Call(c).wrote => fs.lock = c
    /\ \A c \in Callers : fs'.call[c].closed # Call(c).closed => fs.lock = c

\* C16: when several calls got 401 for the same stale token and the
\* credential source gave them all one new token, exactly one of them stored
\* the new header and closed the session, the others returned from the
\* refresh having stored and closed nothing, and the stored header is
\* "Bearer " + that token while it is the current one; the stored header is
\* only ever written by the holder of the refresh lock.
C16_OneRefresh ==
    /\ [](\A t \in 1..(MaxTokens + 1) : \A u \in 1..(MaxTokens + 1) :
             SameStaleToken(Bearer(u), t) => OneReplaces(Bearer(u), t))
    /\ [][WrittenUnderLock]_vars

\* both calls were rejected with the first token, both were given the second
\* one by the source, and both have been answered
C16_Witness ==
    /\ SameStaleToken(Bearer(1), 2)
    /\ Rejected(Bearer(1)) = Callers
    /\ \A c \in Callers : Finished(c)
    /\ \E c \in Callers : Call(c).closed = 0

-----------------------------------------------------------------------------
(* SearchService.iter_products over a catalogue whose items carry a sensing
   time.  Time is counted in microseconds, the resolution of datetime;
   MaxResults stands for the 10 000 results the API serves for one query. *)

MaxTime == 4
MaxResults == 2

Times == 0..MaxTime

\* dtstart = dtend = None, and limit = None
NoWindow == <<>>
NoLimit == <<>>

\* the catalogues: the number of items at each instant (none, one, or more
\* than one query serves)
Catalogues == [Times -> {0, 1, MaxResults + 1}]

\* SearchFilters: dtstart and dtend, or neither
Windows == {<<a, b>> : a \in Times, b \in Times} \cup {NoWindow}

\* the items of the catalogue inside the filter (both ends belong to the window)
Matching(cat, w) ==
    {<<t, i>> : t \in Times, i \in 1..(MaxResults + 1)} \cap
    {it \in Times \X (1..(MaxResults + 1)) :
        /\ it[2] <= cat[it[1]]
        /\ w # NoWindow => w[1] <= it[1] /\ it[1] <= w[2]}

\* SearchService.count: total_results of the query
Count(cat, w) == Cardinality(Matching(cat, w))

\* the order in which the API lists the items of a query: latest first
RECURSIVE Listing(_)
Listing(items) ==
    IF items = {} THEN <<>>
    ELSE LET first == CHOOSE x \in items : \A y \in items :
                          \/ x[1] > y[1]
                          \/ x[1] = y[1] /\ x[2] <= y[2]
         IN  <<first>> \o Listing(items \ {first})

\* SearchService.search without limit: list(results)
SearchAll(cat, w) == Listing(Matching(cat, w))

\* itertools.islice(results, limit) and products[:limit]
Limited(prods, limit) ==
    IF limit = NoLimit \/ limit[1] >= Len(prods) THEN prods
    ELSE SubSeq(prods, 1, limit[1])

\* timedelta / 2 rounds to the microsecond, a half to the even one
Half(width) ==
    IF width % 2 = 0 THEN width \div 2
    ELSE IF (width \div 2) % 2 = 0 THEN width \div 2 ELSE (width \div 2) + 1

Midpoint(w) == w[1] + Half(w[2] - w[1])

\* the tests `<= 10000` of iter_products and _bisect_search
FitsCapOffByOne(total) == total <= MaxResults + 1

FitsCap(total) == total <= MaxResults

NoProducts == [raised |-> "none", products |-> <<>>, fetched |-> <<>>]

\* one leaf: the query is fetched whole
Leaf(cat, w) ==
    [raised |-> "none", products |-> SearchAll(cat, w),
     fetched |-> <<[window |-> w, total |-> Count(cat, w)]>>]

\* products.extend(...) of the two halves; an error of either ends the call
Extend(first, second) ==
    IF first.raised # "none" THEN first
    ELSE IF second.raised # "none" THEN second
    ELSE [raised |-> "none", products |-> first.products \o second.products,
          fetched |-> first.fetched \o second.fetched]

\* _bisect_search; a half that is the window itself and is still over the cap
\* recurses without end, which Python ends with RecursionError
RECURSIVE BisectSearch(_, _)
BisectSearch(cat, w) ==
    IF w = NoWindow THEN [NoProducts EXCEPT !.raised = "ValueError"]
    ELSE LET first_filters == <<w[1], Midpoint(w)>>
             second_filters == <<Midpoint(w), w[2]>>
             Side(f) == IF FitsCap(Count(cat, f)) THEN Leaf(cat, f)
                        ELSE IF f = w THEN [NoProducts EXCEPT !.raised = "RecursionError"]
                        ELSE BisectSearch(cat, f)
         IN  Extend(Side(first_filters), Side(second_filters))

SearchFrame == <<cfg, db, files, sessionExists, searchCached, pcMain, jobIdx, pshutdown,
                 dshutdown, isNew, products, regTodo, wpc, attempt, thr, queue, cpc,
                 crec, clean, calm, runs, timeouts, hist, lastCall, fs>>

\* iter_products(collection_id, filters, limit)
IterProducts ==
    /\ srch.pc = "called"
    /\ LET total == Count(srch.catalogue, srch.filters)
           got == IF FitsCap(total)
                  THEN [Leaf(srch.catalogue, srch.filters) EXCEPT
                          !.products = Limited(@, srch.limit)]
                  ELSE [BisectSearch(srch.catalogue, srch.filters) EXCEPT
                          !.products = Limited(@, srch.limit)]
       IN  srch' = [srch EXCEPT !.pc = IF got.raised = "none" THEN "returned" ELSE "raised",
                                !.total = total,
                                !.raised = got.raised,
                                !.products = got.products,
                                !.fetched = got.fetched]
    /\ UNCHANGED SearchFrame

InitSearch ==
    /\ InitProcess({StoreConfig}, {TRUE}, {TRUE})
    /\ fs = NoFs
    /\ \E cat \in Catalogues, w \in Windows, limit \in {NoLimit, <<1>>} :
          srch = [pc |-> "called", catalogue |-> cat, filters |-> w, limit |-> limit,
                  total |-> 0, raised |-> "none", products |-> <<>>, fetched |-> <<>>]

NextSearch == IterProducts

SpecSearch == InitSearch /\ [][NextSearch]_vars

Range(seq) == {seq[i] : i \in 1..Len(seq)}

RECURSIVE Concat(_)
Concat(seqs) == IF seqs = <<>> THEN <<>> ELSE Head(seqs) \o Concat(Tail(seqs))

\* C17: when iter_products finds a total above the cap for a filter with the
\* window [a, b] and returns, every query whose items it fetched had a counted
\* total of at most the cap, the windows of the fetched queries start at a,
\* end at b and each starts where the one before it ends, and the items
\* returned are the results of those queries one after the other in that
\* order (cut to `limit` when one is given); without a limit they are, as a
\* set, the items that match the original filter.
C17_Bisection ==
    (srch.pc = "returned" /\ srch.total > MaxResults) =>
        LET n == Len(srch.fetched)
            win(i) == srch.fetched[i].window
            all == Concat([i \in 1..n |-> SearchAll(srch.catalogue, win(i))])
        IN  /\ n >= 2
            /\ \A i \in 1..n : /\ srch.fetched[i].total <= MaxResults
                               /\ Count(srch.catalogue, win(i)) = srch.fetched[i].total
            /\ win(1)[1] = srch.filters[1] /\ win(n)[2] = srch.filters[2]
            /\ \A i \in 1..(n - 1) : win(i)[2] = win(i + 1)[1]
            /\ \A i \in 1..n : win(i)[1] <= win(i)[2]
            /\ IF srch.limit = NoLimit
               THEN /\ srch.products = all
                    /\ Range(srch.products) = Matching(srch.catalogue, srch.filters)
               ELSE srch.products = SubSeq(all, 1, srch.limit[1])

\* both halves of the window were over the cap and were bisected again
C17_Witness ==
    /\ srch.pc = "returned" /\ srch.total > MaxResults /\ srch.limit = NoLimit
    /\ Len(srch.fetched) >= 4
    /\ Len(srch.products) > Cardinality(Range(srch.products))

-----------------------------------------------------------------------------
(* Remote mode of the orchestrator.  The pipeline module of src/ has no remote
   branch (Pipeline takes no remote hook); the branch is modelled from
   section 4.6 of the specification and from tests/test_pipeline_modes.py. *)

\* PostProcessConfig.mode, "local" unless the job sets it
Mode(job) == IF "mode" \in DOMAIN job THEN job.mode ELSE "local"

\* the remote hook handed to Pipeline
RemoteHook == "remote_post_processor" \in DOMAIN cfg /\ cfg.remote_post_processor

\* post_process.enabled and mode = remote and a remote processor supplied
RemoteMode == Job.post_process /\ Mode(Job) = "remote" /\ RemoteHook

RemoteKey(p) == <<WholeKey(p), Job.name>>

\* an item is passed over when its row is processed
RemoteSkipsNone(table, p) == FALSE

RemoteSkips(table, p) ==
    RemoteKey(p) \in DOMAIN table /\ table[RemoteKey(p)].status = PROCESSED

MsgRemote(e) == <<"Remote processing failed", e>>

\* the working set is resolved as for any job; with nothing found the job ends
RemoteDispatch ==
    /\ pcMain = "search"
    /\ RemoteMode
    /\ searchCached' = IF ~UseCache /\ Found # <<>>
                          THEN [searchCached EXCEPT ![Job.name] = TRUE]
                          ELSE searchCached
    /\ products' = Found
    /\ regTodo' = Found
    /\ IF Found = <<>>
          THEN pcMain' = "top" /\ jobIdx' = jobIdx + 1
          ELSE pcMain' = "remote" /\ jobIdx' = jobIdx
    /\ hist' = [hist EXCEPT !.searched = Append(@, jobIdx),
                            !.cached = Append(@, UseCache),
                            !.cacheWrites = IF ~UseCache /\ Found # <<>>
                                                THEN Append(@, <<jobIdx, Found>>) ELSE @,
                            !.closed = IF Found = <<>> THEN Append(@, jobIdx) ELSE @,
                            !.dbAtCall = db,
                            !.filesAtCall = files]
    /\ UNCHANGED <<cfg, db, files, sessionExists, pshutdown, dshutdown, isNew, wpc,
                   attempt, thr, queue, cpc, crec, clean, calm, runs, timeouts, lastCall,
                   fs, srch>>

\* the next found item: passed over, or its lazy view is built and the hook
\* is called with (view, product id); after the last item the job ends
RemoteNext ==
    /\ pcMain = "remote"
    /\ IF regTodo = <<>>
          THEN /\ AfterJob
               /\ hist' = Finally(hist)
               /\ UNCHANGED <<db, regTodo, crec>>
          ELSE LET p == Head(regTodo)
                   key == RemoteKey(p)
                   call == [args |-> <<"RemoteDataset", key[1]>>, outcome |-> "running"]
               IN  IF RemoteSkips(db, p)
                      THEN /\ regTodo' = Tail(regTodo)
                           /\ UNCHANGED <<pcMain, jobIdx, db, crec, hist>>
                      ELSE /\ db' = IF key \in DOMAIN db THEN db
                                    ELSE Upsert(db, key[1], key[2], ProductRecord(PENDING))
                           /\ crec' = key
                           /\ pcMain' = "remote_hook"
                           /\ hist' = [hist EXCEPT !.hook =
                                         (key :> (IF key \in DOMAIN @ THEN Append(@[key], call)
                                                  ELSE <<call>>)) @@ @]
                           /\ UNCHANGED <<jobIdx, regTodo>>
    /\ UNCHANGED <<cfg, files, sessionExists, searchCached, pshutdown, dshutdown, isNew,
                   products, wpc, attempt, thr, queue, cpc, clean, calm, runs, timeouts,
                   lastCall, fs, srch>>

\* the hook returns: processed; it raises: failed, for this item only
RemoteHookDone ==
    /\ pcMain = "remote_hook"
    /\ \E ok \in (IF clean THEN {TRUE} ELSE BOOLEAN) :
          /\ db' = IF ok THEN UpdateStatus(db, crec[1], crec[2], PROCESSED)
                   ELSE UpdateStatusMsg(db, crec[1], crec[2], FAILED, MsgRemote("RuntimeError"))
          /\ hist' = HookEnded(crec, IF ok THEN "returned" ELSE "raised")
    /\ crec' = None
    /\ regTodo' = Tail(regTodo)
    /\ pcMain' = "remote"
    /\ UNCHANGED <<cfg, files, sessionExists, searchCached, jobIdx, pshutdown, dshutdown,
                   isNew, products, wpc, attempt, thr, queue, cpc, clean, calm, runs,
                   timeouts, lastCall, fs, srch>>

\* one job in remote mode over one or two items, live or not, with the hook
RemoteModeConfigs ==
    {[jobs |-> <<[mode |-> "remote"] @@
                 JobConfig("j1", items, NoEntries, 1, TRUE, FALSE, 0, TRUE, live)>>,
      post_processor |-> FALSE, remote_post_processor |-> TRUE] :
        items \in {<<"P1">>, <<"P1", "P2">>}, live \in BOOLEAN}

InitRemoteMode == InitWith(RemoteModeConfigs, {FALSE}, {FALSE})

NextRemoteMode ==
    \/ RunTop
    \/ ResetStale
    \/ RemoteDispatch
    \/ RemoteNext
    \/ RemoteHookDone
    \/ Kill
    \/ Restart

SpecRemoteMode == InitRemoteMode /\ [][NextRemoteMode]_vars

\* the calls of the hook made for a row in this invocation
RemoteCalls(k) == IF k \in DOMAIN hist.hook THEN hist.hook[k] ELSE <<>>

-----------------------------------------------------------------------------
(* Search-only mode of the orchestrator (download.enabled = false, no remote
   hook).  DownloadConfig.enabled exists in models.py, but the pipeline
   module of src/ never reads it; the branch is modelled from section 4.6 of
   the specification and from tests/test_pipeline_modes.py. *)

\* DownloadConfig.enabled, true unless the job clears it
DownloadEnabled(job) == IF "download_enabled" \in DOMAIN job THEN job.download_enabled ELSE TRUE

\* download.enabled = false and no remote processor
SearchOnly == ~DownloadEnabled(Job) /\ ~RemoteHook

\* state_db.get(product_id, job.name) is None: only then is the row inserted
RegistersAlways(table, key) == TRUE

Registers(table, key) == key \notin DOMAIN table

\* the working set is resolved as for any job; with nothing found the job ends
SearchOnlyDispatch ==
    /\ pcMain = "search"
    /\ SearchOnly
    /\ searchCached' = IF ~UseCache /\ Found # <<>>
                          THEN [searchCached EXCEPT ![Job.name] = TRUE]
                          ELSE searchCached
    /\ products' = Found
    /\ regTodo' = Found
    /\ IF Found = <<>>
          THEN pcMain' = "top" /\ jobIdx' = jobIdx + 1
          ELSE pcMain' = "search_only" /\ jobIdx' = jobIdx
    /\ hist' = [hist EXCEPT !.searched = Append(@, jobIdx),
                            !.cached = Append(@, UseCache),
                            !.cacheWrites = IF ~UseCache /\ Found # <<>>
                                                THEN Append(@, <<jobIdx, Found>>) ELSE @,
                            !.closed = IF Found = <<>> THEN Append(@, jobIdx) ELSE @,
                            !.dbAtCall = db,
                            !.filesAtCall = files]
    /\ UNCHANGED <<cfg, db, files, sessionExists, pshutdown, dshutdown, isNew, wpc,
                   attempt, thr, queue, cpc, crec, clean, calm, runs, timeouts, lastCall,
                   fs, srch>>

\* the next found item gets a pending row unless it has a row; after the
\* last item the job ends
SearchOnlyNext ==
    /\ pcMain = "search_only"
    /\ IF regTodo = <<>>
          THEN /\ AfterJob
               /\ hist' = Finally(hist)
               /\ UNCHANGED <<db, regTodo>>
          ELSE LET key == RemoteKey(Head(regTodo))
               IN  /\ regTodo' = Tail(regTodo)
                   /\ IF Registers(db, key)
                         THEN /\ db' = Upsert(db, key[1], key[2], ProductRecord(PENDING))
                              /\ hist' = [hist EXCEPT !.upserts = Append(@, key)]
                         ELSE UNCHANGED <<db, hist>>
                   /\ UNCHANGED <<pcMain, jobIdx>>
    /\ UNCHANGED <<cfg, files, sessionExists, searchCached, pshutdown, dshutdown, isNew,
                   products, wpc, attempt, thr, queue, cpc, crec, clean, calm, runs, timeouts,
                   lastCall, fs, srch>>

\* one job with the download switched off, over one or two items, live or not
SearchOnlyConfigs ==
    {[jobs |-> <<[download_enabled |-> FALSE] @@
                 JobConfig("j1", items, NoEntries, 1, TRUE, FALSE, 0, FALSE, live)>>,
      post_processor |-> FALSE] :
        items \in {<<"P1">>, <<"P1", "P2">>}, live \in BOOLEAN}

InitSearchOnly == InitWith(SearchOnlyConfigs, {FALSE}, {FALSE})

NextSearchOnly ==
    \/ RunTop
    \/ ResetStale
    \/ SearchOnlyDispatch
    \/ SearchOnlyNext
    \/ Kill
    \/ Restart

SpecSearchOnly == InitSearchOnly /\ [][NextSearchOnly]_vars

-----------------------------------------------------------------------------
(* search.py: the end of the bisection *)

\* iter_products was called on a window and has returned or raised
SearchEnded == srch.pc \in {"returned", "raised"} /\ srch.filters # NoWindow

\* C29: range bisection terminates for every catalogue: a window that cannot be
\* split further (start = end, or an over-cap window all of whose items share
\* one instant) is treated as a leaf at once and not bisected again, so that
\* iter_products returns its items (or fails for want of a date range) and
\* never runs into the recursion limit.
C29_UnsplittableIsLeaf ==
    SearchEnded => /\ srch.raised = "none"
                   /\ srch.pc = "returned"

\* iter_products has ended on a window with start = end that holds more items
\* than the cap
C29_Witness ==
    /\ SearchEnded
    /\ srch.filters[1] = srch.filters[2]
    /\ srch.total > MaxResults

-----------------------------------------------------------------------------
(* Failures of single items *)

\* no flag was set and no error left run() in this invocation
Undisturbed == ~pshutdown /\ dshutdown = {} /\ hist.error = "none"

\* the finally block of the job has run
JobClosed(name) ==
    \E i \in 1..Len(hist.closed) : cfg.jobs[hist.closed[i]].name = name

\* the job runs the producer/consumer stage
HasHook(name) == JobOf(name).post_process /\ cfg.post_processor

-----------------------------------------------------------------------------
(* The producer/consumer stage of one invocation, scheduled fairly           *)

\* the errors download_all can raise into the producer: an error of the state
\* store in the registration loop or in get_resumable
DownloaderErrors == {"OperationalError"}

\* download_all raises: the finally of the producer puts the sentinel, gather
\* raises in _run_with_post_processing, the finally of run() closes the store
\* and the error leaves run(); asyncio.run cancels the tasks that remain
DownloadAllRaises ==
    /\ pcMain \in {"register", "gather"}
    /\ cpc # "idle"
    /\ ~clean
    /\ pcMain' = "raised"
    /\ queue' = <<>>
    /\ cpc' = "idle"
    /\ crec' = None
    /\ wpc' = <<>>
    /\ attempt' = <<>>
    /\ regTodo' = <<>>
    /\ \E e \in DownloaderErrors :
          hist' = [Finally(hist) EXCEPT !.put = Append(@, SENTINEL),
                                        !.error = e, !.failed = jobIdx]
    /\ UNCHANGED <<cfg, db, files, sessionExists, searchCached, jobIdx, pshutdown,
                   dshutdown, isNew, products, thr, clean, calm, runs, timeouts,
                   lastCall, fs, srch>>

\* two jobs with the hook: two products that take turns, with the digest check
\* and a retry, then one product without them
StageConfigs ==
    {[jobs |-> <<JobConfig("j1", <<"P1", "P2">>, NoEntries, 1, TRUE, TRUE,
                           MaxRetries, TRUE, TRUE),
                 JobConfig("j2", <<"P1">>, NoEntries, 1, TRUE, FALSE, 0, TRUE, TRUE)>>,
      post_processor |-> TRUE]}

InitStage == InitWith(StageConfigs, {FALSE}, {FALSE})

\* the steps of the program: the event loop runs every callback that is ready,
\* the threads of the executor run
Program ==
    \/ Pipeline
    \/ Downloader
    \/ Consumer

NextStage ==
    \/ Program
    \/ HandleSignal
    \/ DownloadAllRaises

SpecStage == InitStage /\ [][NextStage]_vars /\ WF_vars(Program)

\* the producer/consumer stage of a job is running
StageRunning == cpc # "idle"

\* a stage that runs comes to its end
NeverBlocks == StageRunning ~> ~StageRunning

\* the sentinel is in the sequence once, as its last element
EndsWithOneSentinel(puts) ==
    /\ puts # <<>>
    /\ puts[Len(puts)] = <<"SENTINEL">>
    /\ \A i \in 1..(Len(puts) - 1) : puts[i] # <<"SENTINEL">>

\* C28: the producer/consumer stage always terminates: the producer puts the
\* sentinel on the queue exactly once on every exit path (normal completion,
\* shutdown, error in the downloader), after all the records it enqueues; the
\* consumer stops when it reads the sentinel or sees the shutdown flag; the
\* stage never blocks forever on the queue.
C28_StageTerminates ==
    /\ [](hist.put # <<>> => EndsWithOneSentinel(hist.put))
    /\ []((pcMain = "join" \/ hist.error \in DownloaderErrors) => hist.put # <<>>)
    /\ [](cpc = "done" => pshutdown \/ (hist.put # <<>> /\ queue = <<>>))
    /\ NeverBlocks

\* a stage has ended after the signal arrived, the producer having put the
\* sentinel only
C28_Witness ==
    /\ pcMain \in {"top", "finished"}
    /\ cpc = "idle"
    /\ hist.flagSet
    /\ hist.put = <<SENTINEL>>
    /\ hist.closed # <<>>

-----------------------------------------------------------------------------
(* downloader.py, _download_blocking: the choice between a range request and
   a full transfer, checked under SpecResume *)

\* the thread s before and after a step in which it stays alive
StepsOf(s) == s \in DOMAIN thr /\ s \in DOMAIN thr' /\ thr'[s] # thr[s]

\* the size of the file after the step; a file that does not exist has none
SizeThen(path) == IF path \in DOMAIN files' THEN files'[path] ELSE -1

Resumes(s) == JobOf(s[1][2]).resume /\ SizeOf(DownloadPath(s[1])) > 0

\* the attempt ended with an error of product.open or stream.read
Raised(t) == t.stage = "ret" /\ t.res \in {"transient", "fatal"}

\* C31 as stated: whenever the range request of an attempt fails, the file is
\* rewritten from byte zero by a full transfer.
C31_RangeFailureRewrites ==
    [][\A s \in DOMAIN thr :
          StepsOf(s) /\ thr'[s].fell /\ ~thr[s].fell
              => /\ thr'[s].stage = "full"
                 /\ SizeThen(DownloadPath(s[1])) = 0]_vars

\* C31: an attempt issues a range request and appends exactly when resume is on
\* and the file is not empty; when the range request fails the attempt opens a
\* full transfer, which truncates the file and writes it from byte zero, or
\* raises and leaves the file as the range request left it; with resume off or
\* no partial file the file is written from byte zero.
C31_RangeOrFromZero ==
    [][\A s \in DOMAIN thr :
          StepsOf(s) =>
            LET path == DownloadPath(s[1])
                a == thr[s]
                b == thr'[s]
            IN  /\ a.stage = "open" =>
                      /\ b.stage = "range" => Resumes(s) /\ files' = files
                      /\ ~Resumes(s) => b.stage # "range"
                      /\ b.fell /\ ~a.fell <=>
                             Resumes(s) /\ b.stage # "range"
                /\ a.stage = "range" =>
                      /\ b.stage = "range" =>
                             /\ SizeThen(path) = SizeOf(path) + 1
                             /\ b.left = a.left - 1
                      /\ b.fell /\ ~a.fell <=>
                             b.stage = "full" \/ Raised(b)
                /\ b.stage = "full" /\ a.stage # "full" =>
                      SizeThen(path) = 0 /\ b.left = FileChunks
                /\ a.stage = "full" /\ b.stage = "full" =>
                      SizeThen(path) = FileChunks - b.left
                /\ Raised(b) => files' = files]_vars

\* the range request of a resumed transfer failed after it had appended, and
\* the full transfer that followed wrote the whole file
C31_Witness ==
    \E s \in DOMAIN thr :
        /\ thr[s].fell
        /\ JobOf(s[1][2]).resume
        /\ thr[s].stage = "ret"
        /\ thr[s].res = "true"
        /\ files[DownloadPath(s[1])] = FileChunks

-----------------------------------------------------------------------------
(* downloader.py, _download_one: the file of a row, checked under SpecClash *)

\* the rows of the job that this call of download_all transfers
Transferred(name) == {k \in DOMAIN wpc : k[2] = name}

\* C32: no two state rows of a job are transferred to the same file path, in
\* whole-product mode (file named by the item id) and in sub-entry mode (file
\* named by the basename of the entry).
C32_DistinctPaths ==
    \A k1, k2 \in Transferred(Job.name) :
        k1 # k2 => DownloadPath(k1) # DownloadPath(k2)

\* the part of C32 that holds: the rows of whole products have files of their own
C32_DistinctPathsOfProducts ==
    \A k1, k2 \in Transferred(Job.name) :
        k1 # k2 /\ DecodeEntryKey(k1[1])[2] = None /\ DecodeEntryKey(k2[1])[2] = None
            => DownloadPath(k1) # DownloadPath(k2)

\* a thread writes the file of another row of the job, which is verified
C32_Witness ==
    \E s \in DOMAIN thr : \E k \in DOMAIN db :
        /\ k # s[1]
        /\ k[2] = s[1][2]
        /\ DownloadPath(k) = DownloadPath(s[1])
        /\ db[k].status = VERIFIED
        /\ thr[s].stage = "full"
        /\ thr[s].left > 0
        /\ thr[s].left < FileChunks

-----------------------------------------------------------------------------
(* The post-search filter of a job.  JobConfig.post_search_filter exists in
   models.py and filters.py builds the filter, but _search_with_cache of the
   pipeline module of src/ never calls it; the fresh-search path with the
   filter is modelled from section 4.6 of the specification and from
   tests/test_filters.py (TestPipelineAppliesFilter). *)

NoFilter == "no filter"

\* JobConfig.post_search_filter, None unless the job sets it
PostSearchFilter(job) ==
    IF "post_search_filter" \in DOMAIN job THEN job.post_search_filter ELSE NoFilter

\* a filter that keeps everything
ApplyNoFilter(type, prods) == prods

\* build_filter(type, params)(products) for the filters of the model:
\* lambda prods: prods[:1], lambda prods: prods[1:], and no filter
ApplyFilter(type, prods) ==
    IF type = "first" THEN SubSeq(prods, 1, IF Len(prods) > 1 THEN 1 ELSE Len(prods))
    ELSE IF type = "rest" THEN SubSeq(prods, 2, Len(prods))
    ELSE prods

\* the fresh path enumerates and filters, the cached path is that of Found
FoundFiltered ==
    IF UseCache THEN Found ELSE ApplyFilter(PostSearchFilter(Job), Job.items)

\* _search_with_cache with the filter, then the dispatch of Pipeline.run:
\* the cache is populated with the filtered items, which download_all gets
FilteredSearch ==
    /\ pcMain = "search"
    /\ searchCached' = IF ~UseCache /\ FoundFiltered # <<>>
                          THEN [searchCached EXCEPT ![Job.name] = TRUE]
                          ELSE searchCached
    /\ products' = FoundFiltered
    /\ IF FoundFiltered = <<>>
          THEN /\ pcMain' = "top"
               /\ jobIdx' = jobIdx + 1
               /\ UNCHANGED <<regTodo, cpc>>
          ELSE /\ pcMain' = "register"
               /\ jobIdx' = jobIdx
               /\ regTodo' = FoundFiltered
               /\ cpc' = "idle"
    /\ hist' = [hist EXCEPT
                  !.searched = Append(@, jobIdx),
                  !.cached = Append(@, UseCache),
                  !.cacheWrites = IF ~UseCache /\ FoundFiltered # <<>>
                                     THEN Append(@, <<jobIdx, FoundFiltered>>) ELSE @,
                  !.put = <<>>,
                  !.closed = IF FoundFiltered = <<>> THEN Append(@, jobIdx) ELSE @,
                  !.settled = {k \in DOMAIN db : db[k].status \in {VERIFIED, PROCESSED}},
                  !.dbAtCall = db,
                  !.filesAtCall = files]
    /\ UNCHANGED <<cfg, db, files, sessionExists, pshutdown, dshutdown, isNew, wpc,
                   attempt, thr, queue, crec, clean, calm, runs, timeouts, lastCall, fs, srch>>

\* one download-only job over two items, with or without a filter, live or not
FilterConfigs ==
    {[jobs |-> <<[post_search_filter |-> type] @@
                 JobConfig("j1", <<"P1", "P2">>, NoEntries, 1, TRUE, type = "first",
                           IF live THEN MaxRetries ELSE 0, FALSE, live)>>,
      post_processor |-> FALSE] :
        type \in {"first", "rest"}, live \in BOOLEAN}
    \cup
    {[jobs |-> <<JobConfig("j1", <<"P1", "P2">>, NoEntries, 1, TRUE, FALSE, 0, FALSE, live)>>,
      post_processor |-> FALSE] : live \in BOOLEAN}

InitFilter == InitWith(FilterConfigs, {FALSE}, {FALSE})

NextFilter ==
    \/ RunTop
    \/ ResetStale
    \/ FilteredSearch
    \/ Downloader
    \/ Kill
    \/ Restart

SpecFilter == InitFilter /\ [][NextFilter]_vars

\* what the filter of the job leaves of its items, written out
Kept(job) ==
    IF "post_search_filter" \notin DOMAIN job THEN job.items
    ELSE IF job.post_search_filter = "first" THEN <<job.items[1]>>
    ELSE <<job.items[2]>>

\* the calls of cache_search_results of this process for the job
CacheWritesOf(j) == SelectSeq(hist.cacheWrites, LAMBDA w : w[1] = j)

C33_WitnessCached ==
    /\ hist.searched # <<>>
    /\ CachedResume
    /\ PostSearchFilter(LastSearched) # NoFilter
    /\ pcMain = "gather"

-----------------------------------------------------------------------------
(* downloader.py, download_all: the registration of a job in sub-entry mode,
   over invocations of the same job *)

\* one job of two items in sub-entry mode; the first item has one entry, h,
\* that none of the patterns matches; the pattern x matches nothing
EntryPatterns == {{"f"}, {"g"}, {"f", "g"}, {"x"}}

EntryConfigs ==
    {[jobs |-> <<JobConfig("j1", <<"P3", "P1">>, pats, 1, FALSE, pats # {"f", "g"},
                           0, FALSE, TRUE)>>,
      post_processor |-> FALSE] : pats \in EntryPatterns}
    \cup
    {[jobs |-> <<JobConfig("j1", <<"P3", "P1">>, {"f"}, 1, FALSE, FALSE,
                           MaxRetries, FALSE, TRUE)>>,
      post_processor |-> FALSE]}
    \cup
    {[jobs |-> <<JobConfig("j1", <<"P1">>, NoEntries, 1, FALSE, TRUE, 0, FALSE, TRUE)>>,
      post_processor |-> FALSE]}

InitEntries == InitWith(EntryConfigs, BOOLEAN, {TRUE})

NextEntries ==
    \/ Pipeline
    \/ Downloader
    \/ Restart

SpecEntries == InitEntries /\ [][NextEntries]_vars

\* the entries of a product that the patterns select, written out
Selected(product_id, pats) ==
    IF product_id = "P3"
        THEN IF "*" \in pats THEN {<<"h">>} ELSE {}
        ELSE (IF "*" \in pats \/ "f" \in pats THEN {<<"data", "f">>} ELSE {})
             \cup (IF "*" \in pats \/ "g" \in pats THEN {<<"g">>} ELSE {})

\* the rows registration is to make for the product
EntryRows(product_id, job) ==
    {<<<<product_id, "::entry::", e>>, job.name>> : e \in Selected(product_id, job.entries)}

IsEntryRow(k) == Len(k[1]) = 3 /\ k[1][2] = "::entry::"

\* C34: in sub-entry mode registration creates exactly one pending row per
\* matching entry (full name or basename), keyed <item-id>::entry::<entry-name>;
\* an item with no matching entry, or whose entry listing raises, gets no row
\* and does not stop the registration of the other items; an existing row is
\* not overwritten; and an entry row goes from downloaded straight to
\* verified, without the digest check.
C34_EntryRegistration ==
    [][(jobIdx <= Len(cfg.jobs) /\ Job.entries # NoEntries) =>
        /\ (pcMain = "register" /\ regTodo # <<>> /\ regTodo' # regTodo) =>
              LET new == (DOMAIN db') \ (DOMAIN db)
                  rows == EntryRows(Head(regTodo), Job)
              IN  /\ new = rows \ DOMAIN db \/ (~clean /\ new = {})
                  /\ \A k \in new : db'[k] = [status |-> PENDING, error_message |-> <<>>,
                                               download_path |-> <<>>]
                  /\ \A k \in DOMAIN db : db'[k] = db[k]
                  /\ regTodo' = Tail(regTodo)
                  /\ pcMain' = "register"
        /\ pcMain # "register" => DOMAIN db' = DOMAIN db
        /\ \A k \in DOMAIN db :
              /\ IsEntryRow(k)
              /\ k \in DOMAIN wpc => wpc[k] # "md5"
              /\ db[k].status = DOWNLOADED /\ db'[k] # db[k] =>
                    db'[k].status = VERIFIED]_vars

\* with the digest check on, the second item has got the row of the entry
\* whose basename matches and the row is verified, while the first item, none
\* of whose entries matches, has no row
C34_Witness ==
    /\ pcMain = "gather"
    /\ Job.entries = {"f"}
    /\ Job.verify_md5
    /\ DOMAIN db = {<<<<"P1", "::entry::", <<"data", "f">>>>, "j1">>}
    /\ \E k \in DOMAIN db : db[k].status = VERIFIED

-----------------------------------------------------------------------------
(* filters.py: the built-in temporal subsampling filter, called on every list
   of up to MaxItems products with sensing starts from MinSense to MaxSense
   and every interval from 1 to MaxInterval (in units of the model's clock) *)

MaxItems == 3
MinSense == 0 - 2
MaxSense == 3
MaxInterval == 3

\* the products of a call: the i-th has the sensing start times[i]
ProductsAt(times) == [i \in 1..Len(times) |-> [id |-> i, sensing_start |-> times[i]]]

SenseLists == UNION {[1..n -> MinSense..MaxSense] : n \in 0..MaxItems}

\* int(timestamp / interval_secs)
BucketTruncated(sensing_start, interval) ==
    IF sensing_start >= 0 THEN sensing_start \div interval
    ELSE 0 - ((0 - sensing_start) \div interval)

\* bucket = math.floor(product.sensing_start.timestamp() / interval_secs)
Bucket(sensing_start, interval) == sensing_start \div interval

\* sorted(products, key=lambda p: p.sensing_start): the sort is stable
RECURSIVE SortedBySensingStart(_)
SortedBySensingStart(prods) ==
    IF prods = <<>> THEN <<>>
    ELSE LET n == Len(prods)
             front == SortedBySensingStart(SubSeq(prods, 1, n - 1))
             before == SelectSeq(front, LAMBDA p : p.sensing_start <= prods[n].sensing_start)
             after == SelectSeq(front, LAMBDA p : p.sensing_start > prods[n].sensing_start)
         IN  before \o <<prods[n]>> \o after

\* for product in sorted_products: the first product of a bucket not seen is kept
RECURSIVE KeepFirstPerBucket(_, _, _, _)
KeepFirstPerBucket(sorted_products, interval, seen_buckets, result) ==
    IF sorted_products = <<>> THEN result
    ELSE LET product == Head(sorted_products)
             bucket == Bucket(product.sensing_start, interval)
         IN  IF bucket \notin seen_buckets
                THEN KeepFirstPerBucket(Tail(sorted_products), interval,
                                        seen_buckets \cup {bucket}, Append(result, product))
                ELSE KeepFirstPerBucket(Tail(sorted_products), interval,
                                        seen_buckets, result)

\* _sample_interval_factory(interval_hours)(products)
SampleInterval(prods, interval) ==
    IF prods = <<>> THEN <<>>
    ELSE KeepFirstPerBucket(SortedBySensingStart(prods), interval, {}, <<>>)

\* build_filter("sample_interval", {"interval_hours": h})(products)
SampleCall ==
    /\ \E times \in SenseLists, interval \in 1..MaxInterval :
          lastCall' = [op |-> "sample_interval", products |-> ProductsAt(times),
                       interval |-> interval,
                       result |-> SampleInterval(ProductsAt(times), interval)]
    /\ UNCHANGED db
    /\ UNCHANGED StoreFrame

SpecSample == InitStore /\ [][SampleCall]_vars

\* the elements of a sequence
Elements(seq) == {seq[i] : i \in 1..Len(seq)}

\* C35: for every input list and every interval h > 0 the temporal-subsample
\* filter returns a subset of the input with exactly one item per occupied
\* bucket floor(sensing_start / h), an item with the earliest sensing start of
\* its bucket, in ascending order of sensing start; an empty input gives an
\* empty output.
C35_OnePerBucket ==
    lastCall.op = "sample_interval" =>
        LET input == lastCall.products
            h == lastCall.interval
            result == lastCall.result
            InBucket(b) == {p \in Elements(input) : p.sensing_start \div h = b}
        IN  /\ Elements(result) \subseteq Elements(input)
            /\ \A i, j \in 1..Len(result) : i < j =>
                   result[i].sensing_start < result[j].sensing_start
            /\ \A b \in (MinSense \div h)..(MaxSense \div h) :
                   LET kept == {i \in 1..Len(result) : result[i] \in InBucket(b)}
                   IN  IF InBucket(b) = {} THEN kept = {}
                       ELSE /\ Cardinality(kept) = 1
                            /\ \A i \in kept : \A p \in InBucket(b) :
                                   result[i].sensing_start <= p.sensing_start
            /\ input = <<>> => result = <<>>

\* an unsorted list with two items in one bucket before the epoch and one in
\* another: one item of each bucket is returned, earliest first
C35_Witness ==
    /\ lastCall.op = "sample_interval"
    /\ lastCall.interval = 2
    /\ lastCall.products = ProductsAt(<<1, -1, -2>>)
    /\ lastCall.result = <<[id |-> 3, sensing_start |-> -2], [id |-> 1, sensing_start |-> 1]>>

-----------------------------------------------------------------------------
(* downloader.py: the rows marked downloading and the semaphore, checked
   under Spec *)

\* the rows of the job searched last that are marked downloading
MarkedDownloading == GetByStatus(db, LastSearched.name, DOWNLOADING)

\* no row of the job was marked downloading when its download_all was called
NoneDownloadingAtCall ==
    \A k \in DOMAIN hist.dbAtCall :
        k[2] = LastSearched.name => hist.dbAtCall[k].status # DOWNLOADING

\* C36: in a run that starts with no row of the job in downloading, the
\* number of rows of the job whose status is downloading never exceeds
\* `parallel`, during backoff sleeps and after shutdown too.
C36_DownloadingBound ==
    (hist.searched # <<>> /\ NoneDownloadingAtCall) =>
        Cardinality(MarkedDownloading) <= LastSearched.parallel

\* with parallel = 1 and two items: request_shutdown came while the first was
\* being transferred, its row is left downloading, and the second coroutine
\* has left without marking its row
C36_Witness ==
    /\ pcMain = "gather"
    /\ Job.parallel = 1
    /\ Job.name \in dshutdown
    /\ Cardinality(DOMAIN wpc) = 2
    /\ \A k \in DOMAIN wpc : wpc[k] = "done"
    /\ Cardinality(MarkedDownloading) = 1
    /\ \E k \in DOMAIN wpc : db[k].status = PENDING

-----------------------------------------------------------------------------
(* downloader.py: the threads that write the file of one item, checked under Spec *)

\* the threads of _download_blocking of a state key that have the file open
WritersOf(k) == {s \in DOMAIN thr : s[1] = k /\ thr[s].stage \in {"range", "full"}}

\* C37: at no time do two workers write the file of the same item: the worker
\* of an attempt that timed out has stopped writing before the retry of the
\* item, or any later write of the file, begins.
C37_OneWriter ==
    \A k \in DOMAIN wpc : Cardinality(WritersOf(k)) <= 1

\* the thread of the attempt that timed out and the thread of the retry both
\* have the file of the item open and both have chunks left to write
C37_Witness ==
    \E k \in DOMAIN wpc :
        /\ attempt[k] = 1
        /\ wpc[k] = "xfer"
        /\ \A a \in {0, 1} :
              /\ <<k, a>> \in WritersOf(k)
              /\ thr[<<k, a>>].left > 0

-----------------------------------------------------------------------------
(* remote.py: the session that a refresh closes and the requests in flight on
   it, checked under SpecRemote.  A session is built from the header of the
   moment and closed only when the header changes, so its header names it. *)

\* the request of the call has left on an open session and has not ended
InFlight(c) == Call(c).pc \in {"wait1", "wait2"} /\ Call(c).answer # "RuntimeError"

\* the session the request of the call left on is still there, and open
PoolOpen(c) ==
    /\ fs.session # NoSession
    /\ fs.session.auth = Call(c).sent
    /\ ~fs.session.closed

\* C38: a token refresh never closes the connection pool while a request that
\* another caller issued on it is in flight: every request that has not
\* received 401 completes on the pool it started on.
C38_PoolOutlivesRequests ==
    \A c \in Callers : InFlight(c) => PoolOpen(c)

\* one call closes the session after its 401 while the request of another
\* call, sent before the token was rotated and accepted by the server, is
\* still in flight on that session
C38_Witness ==
    \E c1, c2 \in Callers :
        /\ c1 # c2
        /\ Call(c1).pc = "closing"
        /\ Call(c2).pc = "wait1"
        /\ Call(c2).answer = "ok"
        /\ fs.session # NoSession
        /\ fs.session.closed
        /\ fs.session.auth = Call(c2).sent

-----------------------------------------------------------------------------
(* The rows that a later run transfers again, checked under SpecResume *)

\* the row was verified and its hook raised, before this call of download_all
FailedByHookAtCall(k) ==
    /\ k \in DOMAIN hist.dbAtCall
    /\ hist.dbAtCall[k].status = FAILED
    /\ hist.dbAtCall[k].error_message = <<"Post-processing failed", "RuntimeError">>

\* C39 as stated: an item whose file has once been verified is never
\* transferred again in a later run, also when its post-processing failed.
C39_VerifiedOnceNeverAgain ==
    \A s \in DOMAIN thr : ~FailedByHookAtCall(s[1])

\* C39: an item whose row is verified, processing or processed is never
\* transferred again: a transfer starts only for a row that is pending,
\* failed or (in a retry) downloading, and marks it downloading; a row that
\* post-processing failed is failed like any other, so it is resumable and a
\* later run transfers the item again.
C39_SettledNotTransferred ==
    [][/\ \A s \in (DOMAIN thr') \ (DOMAIN thr) :
             /\ s[1] \in DOMAIN db
             /\ db[s[1]].status \in {PENDING, FAILED, DOWNLOADING}
             /\ db'[s[1]].status = DOWNLOADING
       /\ \A k \in DOMAIN db :
             db[k].status = FAILED => k \in GetResumable(db, k[2])]_vars

\* a later run writes again the file of an item that had been verified and
\* whose hook had raised
C39_Witness ==
    \E s \in DOMAIN thr :
        /\ FailedByHookAtCall(s[1])
        /\ runs > 1
        /\ thr[s].stage = "full"
        /\ thr[s].left < FileChunks

-----------------------------------------------------------------------------
(* search.py: the items of the instant that two halves share, checked under
   SpecSearch *)

\* iter_products has returned the result of a bisection
Bisected == srch.pc = "returned" /\ srch.total > MaxResults

\* C40: when bisection is used iter_products returns no item twice, although
\* the two halves of every split share the midpoint instant.
C40_NoItemTwice ==
    Bisected =>
        \A i, j \in 1..Len(srch.products) :
            srch.products[i] = srch.products[j] => i = j

\* the result of a bisection without limit holds an item of the midpoint of
\* the window twice, once from each half
C40_Witness ==
    /\ Bisected
    /\ srch.limit = NoLimit
    /\ \E i, j \in 1..Len(srch.products) :
          /\ i < j
          /\ srch.products[i] = srch.products[j]
          /\ srch.products[i][1] = Midpoint(srch.filters)

=============================================================================
